---- MODULE Spec2Model ----
(***************************************************************************)
(* A model of the go-im message pipeline: the WebSocket gateway's inbound  *)
(* handlers (send, read), MessageService.Send, the SQL message log, the    *)
(* conversation index, read receipts, mark-all-read and Redis presence.    *)
(*                                                                         *)
(* Every SQL statement and every Redis command is one atomic step; a       *)
(* handler is a little process whose program counter walks through the     *)
(* statements in source order, so handlers running on different            *)
(* connections interleave between statements, as goroutines do.            *)
(***************************************************************************)
EXTENDS Integers, Sequences, FiniteSets, TLC

(***************************************************************************)
(* Bounds of the model.                                                    *)
(***************************************************************************)
MaxReq == 2          \* send requests handled in one behaviour
MaxClock == 2        \* readings the wall clock can take

(***************************************************************************)
(* The data the stores hold before the behaviour starts: users, the        *)
(* friends table, groups with their members and mutes, open connections.   *)
(***************************************************************************)
Users == {"u1", "u2", "u3"}

Friends == {{"u1", "u2"}}

Groups == {"g1", "g2"}

Members == [g \in Groups |-> IF g = "g1" THEN {"u1", "u2"} ELSE {"u3"}]

GroupMuted == [g \in Groups |-> FALSE]

MutedMembers == [g \in Groups |-> IF g = "g1" THEN {"u2"} ELSE {}]

Conns == {"k1", "k2", "k3"}

ConnUser == [k \in Conns |-> IF k = "k3" THEN "u2" ELSE "u1"]

ConnDevice == [k \in Conns |-> IF k = "k2" THEN "d2" ELSE "d1"]

ConvIds == {"", "c12", "c13", "cg1", "cg2"}

Reqs == 1..MaxReq

\* The ids StartStream draws for streams, and the value of a missing key.
StreamIds == {"s1"}

NoStream == [open |-> FALSE, convId |-> "", convType |-> "c2c", from |-> "",
             to |-> "", groupId |-> "", seq |-> 0, exp |-> 0]

Max(a, b) == IF a > b THEN a ELSE b

VARIABLES
    now,          \* the wall clock, time.Now()
    messages,     \* table messages
    nextId,       \* the next value uuid.NewString() returns
    producer,     \* whether MessageService.Producer is configured
    convLastSeq,  \* table conversations: id -> last_seq (0: no row)
    userConvs,    \* table user_conversations: set of <<user, conv>>
    lastSeqCache, \* Redis im:lastseq:<conv> (0: no key)
    published,    \* every PUBLISH on a delivery channel
    mqEvents,     \* group_update events handed to the Kafka producer
    fanout,       \* the in-process member-expansion goroutines
    out,          \* frames written on each connection, in order
    sends,        \* the send handlers: request -> its locals and position
    devices,      \* Redis sets im:presence:devices:<user>
    online,       \* Redis set im:presence:online
    conns,        \* Server.Handle per connection: position, reader, inbox
    readReceipts, \* table read_receipts: <<user, conv>> -> seq (0: no row)
    readSeqCache, \* Redis im:readseq:<user>:<conv> (0: no key)
    reads,        \* the read and mark-all-read handlers
    streams,      \* Redis im:stream:<streamId>: the state of open streams
    convDeletes,  \* table conv_deletes: <<owner, conv>> -> deleted_at (0: no row)
    handled,      \* the recall, delete, history or sweep call handled last
    clockMs,      \* time.Now().UnixMilli()
    bucket,       \* Redis <key>:t and <key>:ts of one rate-limit key
    allows,       \* the Allow calls in progress on that key
    verdicts,     \* what the Allow calls on that key have returned
    writeMu,      \* Server.Handle's writeMu of each connection: who holds it
    writers,      \* the goroutines that write frames on each connection
    inChunks,     \* the frame of one MarkAllReadInChunks call
    workers,      \* its goroutines, one per chunk
    subs          \* Handle's loop and the subscribe_group goroutines of a connection

storeVars == <<now, messages, published, out>>

sendVars == <<nextId, producer, convLastSeq, userConvs, lastSeqCache,
              mqEvents, fanout, sends, streams>>

presVars == <<devices, online, conns>>

receiptVars == <<readReceipts, readSeqCache>>

readVars == <<receiptVars, reads>>

histVars == <<convDeletes, handled>>

limVars == <<clockMs, bucket, allows, verdicts>>

muVars == <<writeMu, writers>>

chunkVars == <<inChunks, workers>>

subVars == <<subs>>

extVars == <<limVars, muVars, chunkVars, subVars>>

vars == <<storeVars, sendVars, presVars, readVars, histVars, extVars>>

(***************************************************************************)
(* The send action's payloads (SendPayload), without mentions.             *)
(***************************************************************************)
SendInputs ==
    { [convId |-> "c12", convType |-> "c2c", to |-> t, groupId |-> "",
       clientMsgId |-> m, payload |-> "p1", burnAfterRead |-> FALSE,
       expireAt |-> 0] : t \in {"u1", "u2"}, m \in {"m1", "m2"} }
    \cup
    { [convId |-> "c13", convType |-> "c2c", to |-> "u3", groupId |-> "",
       clientMsgId |-> m, payload |-> "p1", burnAfterRead |-> FALSE,
       expireAt |-> 0] : m \in {"m1"} }
    \cup
    { [convId |-> IF g = "g1" THEN "cg1" ELSE "cg2", convType |-> "group",
       to |-> "", groupId |-> g, clientMsgId |-> m, payload |-> "p1",
       burnAfterRead |-> FALSE, expireAt |-> 0] :
         g \in Groups, m \in {"m1"} }

NoInput == [convId |-> "", convType |-> "c2c", to |-> "", groupId |-> "",
            clientMsgId |-> "", payload |-> "", burnAfterRead |-> FALSE,
            expireAt |-> 0]

IdleSend == [pc |-> "idle", conn |-> "k1", in |-> NoInput, isStreaming |-> FALSE,
             streamStatus |-> "", serverId |-> 0, seq |-> 0, ts |-> 0,
             stored |-> FALSE, indexed |-> FALSE, err |-> "",
             kind |-> "send", streamId |-> "", streamSeq |-> 0,
             found |-> FALSE, from |-> ""]

(***************************************************************************)
(* Permission callbacks.                                                   *)
(***************************************************************************)
IsFriend(a, b) == {a, b} \in Friends

IsMember(g, u) == g \in Groups /\ u \in Members[g]

IsMuted(g, u) ==
    g \in Groups /\ (GroupMuted[g] \/ u \in MutedMembers[g])

(***************************************************************************)
(* MessageStore.Append: INSERT IGNORE under the unique key                 *)
(* (conv_id, client_msg_id).                                               *)
(***************************************************************************)
HasKey(log, conv, cid) ==
    \E m \in log : m.convId = conv /\ m.clientMsgId = cid

InsertAlways(log, m) == log \cup {m}

\* REPLACE INTO: the row of the key gives way to the new one.
InsertReplace(log, m) ==
    {x \in log : ~(x.convId = m.convId /\ x.clientMsgId = m.clientMsgId)}
      \cup {m}

InsertIgnore(log, m) ==
    IF HasKey(log, m.convId, m.clientMsgId) THEN log ELSE log \cup {m}

(***************************************************************************)
(* ConversationStore.UpsertConversation: last_seq only ever grows.         *)
(***************************************************************************)
\* An upsert that stores the incoming last_seq whatever the row holds.
OverwriteLastSeq(old, seq) == seq

UpsertLastSeq(old, seq) == IF seq > old THEN seq ELSE old

(***************************************************************************)
(* The message a send builds (models.Message in MessageService.Send).      *)
(***************************************************************************)
\* req.From: the connection's user for send and start_stream, the `from` of
\* the stream state for SendStreamChunk and EndStream.
From(s) == IF s.kind \in {"chunk", "end"} THEN s.from ELSE ConnUser[s.conn]

MessageOf(s) ==
    [serverMsgId |-> s.serverId, clientMsgId |-> s.in.clientMsgId,
     convId |-> s.in.convId, convType |-> s.in.convType,
     from |-> From(s), to |-> s.in.to, groupId |-> s.in.groupId,
     seq |-> s.seq, timestamp |-> s.ts, payload |-> s.in.payload,
     recalled |-> FALSE, expireAt |-> s.in.expireAt,
     burnAfterRead |-> s.in.burnAfterRead]

\* A persistence rule that stores every stream message.
StoreAlways(s) == TRUE

ShouldStore(s) ==
    ~s.isStreaming \/ s.streamStatus \in {"start", "end", "error"}

UpdatesIndex(s) == ~s.isStreaming \/ s.streamStatus = "start"

Frame(action, r, code, s) ==
    [action |-> action, rid |-> r, code |-> code,
     convId |-> s.in.convId, clientMsgId |-> s.in.clientMsgId,
     serverMsgId |-> s.serverId, seq |-> s.seq, payload |-> s.in.payload]

Busy(k) ==
    \E r \in DOMAIN sends : sends[r].pc \notin {"idle", "done"} /\ sends[r].conn = k

(***************************************************************************)
(* The send handler: Server.handleInbound (case "send") calling            *)
(* MessageService.Send.  The reader loop of a connection handles one       *)
(* inbound frame at a time, so a connection has one handler in progress.   *)
(***************************************************************************)
\* Where a handler would go on if the return after an error frame were missing.
DenyFallsThrough == "begin"

\* The return that follows every error frame of the send case.
DenyPc == "done"

WriteFrame(k, f) == [out EXCEPT ![k] = Append(@, f)]

\* services.ToConvType: everything that is not "group" is c2c.
ToConvType(t) == IF t = "group" THEN "group" ELSE "c2c"

\* The permission checks of the send handler: the error code, or "" to pass.
PermCode(u, p) ==
    IF ToConvType(p.convType) = "c2c" /\ ~IsFriend(u, p.to) THEN "NOT_FRIEND"
    ELSE IF ToConvType(p.convType) = "group" /\ ~IsMember(p.groupId, u)
         THEN "NOT_GROUP_MEMBER"
         ELSE ""

Arrives(r, k) ==
    /\ sends[r].pc = "idle"
    /\ \A q \in DOMAIN sends : q < r => sends[q].pc # "idle"
    /\ ~Busy(k)

\* A send frame arrives and rateLimitAllow denies it: RATE_LIMIT, return.
\* (The limiter's verdict is open here; Allow also passes on a Redis error.)
SendRateLimited(r) ==
    /\ \E k \in Conns, p \in SendInputs :
         LET s == [IdleSend EXCEPT !.pc = DenyPc, !.conn = k, !.in = p,
                                   !.err = "RATE_LIMIT"]
         IN  /\ Arrives(r, k)
             /\ sends' = [sends EXCEPT ![r] = s]
             /\ out' = WriteFrame(k, Frame("error", r, "RATE_LIMIT", s))
    /\ UNCHANGED <<extVars, presVars, readVars, histVars, streams, now, messages, published, nextId, producer, convLastSeq,
                   userConvs, lastSeqCache, mqEvents, fanout>>

\* The limiter lets it pass and the friend or member check refuses it.
SendDenied(r) ==
    /\ \E k \in Conns, p \in SendInputs :
         LET code == PermCode(ConnUser[k], p)
             s == [IdleSend EXCEPT !.pc = DenyPc, !.conn = k, !.in = p,
                                   !.err = code]
         IN  /\ Arrives(r, k)
             /\ code # ""
             /\ sends' = [sends EXCEPT ![r] = s]
             /\ out' = WriteFrame(k, Frame("error", r, code, s))
    /\ UNCHANGED <<extVars, presVars, readVars, histVars, streams, now, messages, published, nextId, producer, convLastSeq,
                   userConvs, lastSeqCache, mqEvents, fanout>>

\* Both pass: the handler calls MsgSvc.Send.
SendAccepted(r) ==
    /\ \E k \in Conns, p \in SendInputs :
         /\ Arrives(r, k)
         /\ PermCode(ConnUser[k], p) = ""
         /\ sends' = [sends EXCEPT ![r] = [IdleSend EXCEPT !.pc = "begin",
                                                        !.conn = k, !.in = p]]
    /\ UNCHANGED <<extVars, presVars, readVars, histVars, streams, storeVars, nextId, producer, convLastSeq, userConvs,
                   lastSeqCache, mqEvents, fanout>>

\* MessageService.Send, lines 99-118: a fresh serverMsgId, and seq and
\* timestamp read off the wall clock.
SendBegin(r) ==
    /\ sends[r].pc = "begin"
    /\ sends' = [sends EXCEPT ![r].pc = IF ShouldStore(sends[r]) THEN "append"
                                        ELSE "index",
                              ![r].serverId = nextId,
                              ![r].seq = now,
                              ![r].ts = now]
    /\ nextId' = nextId + 1
    /\ UNCHANGED <<extVars, presVars, readVars, histVars, streams, storeVars, producer, convLastSeq, userConvs, lastSeqCache,
                   mqEvents, fanout>>

\* Store.Append; a store error makes Send return it at once.
AppendMsg(r) ==
    /\ sends[r].pc = "append"
    /\ \E ok \in BOOLEAN :
         IF ok
         THEN /\ messages' = InsertIgnore(messages, MessageOf(sends[r]))
              /\ sends' = [sends EXCEPT ![r].pc = "index", ![r].stored = TRUE]
         ELSE /\ messages' = messages
              /\ sends' = [sends EXCEPT ![r].pc = "reply", ![r].err = "SEND_FAILED"]
    /\ UNCHANGED <<extVars, presVars, readVars, histVars, streams, now, published, out, nextId, producer, convLastSeq,
                   userConvs, lastSeqCache, mqEvents, fanout>>

\* ConvStore.UpsertConversation (skipped for stream chunks and ends).
UpsertConversation(r) ==
    LET s == sends[r] IN
    /\ s.pc = "index"
    /\ IF UpdatesIndex(s)
       THEN /\ convLastSeq' = [convLastSeq EXCEPT ![s.in.convId] =
                                   UpsertLastSeq(@, s.seq)]
            /\ sends' = [sends EXCEPT ![r].pc = "cache", ![r].indexed = TRUE]
       ELSE /\ convLastSeq' = convLastSeq
            /\ sends' = [sends EXCEPT ![r].pc = "mute"]
    /\ UNCHANGED <<extVars, presVars, readVars, histVars, streams, storeVars, nextId, producer, userConvs, lastSeqCache,
                   mqEvents, fanout>>

\* cache.Client().Set(lastSeqCacheKey(convId), msg.Seq)
CacheLastSeq(r) ==
    LET s == sends[r] IN
    /\ s.pc = "cache"
    /\ lastSeqCache' = [lastSeqCache EXCEPT ![s.in.convId] = s.seq]
    /\ sends' = [sends EXCEPT ![r].pc = "userconv"]
    /\ UNCHANGED <<extVars, presVars, readVars, histVars, streams, storeVars, nextId, producer, convLastSeq, userConvs,
                   mqEvents, fanout>>

\* ConvStore.UpsertUserConversation for the sender and the c2c peer; for a
\* group either one group_update event or the in-process expansion goroutine.
UpsertUserConversations(r) ==
    LET s == sends[r]
        u == From(s)
        c == s.in.convId
        peer == IF s.in.convType = "c2c" /\ s.in.to # ""
                THEN {<<s.in.to, c>>} ELSE {}
        isGroup == s.in.convType = "group" /\ s.in.groupId # ""
    IN  /\ s.pc = "userconv"
        /\ userConvs' = userConvs \cup {<<u, c>>} \cup peer
        /\ mqEvents' = IF isGroup /\ producer
                       THEN mqEvents \cup {[rid |-> r, groupId |-> s.in.groupId,
                                            convId |-> c, from |-> u]}
                       ELSE mqEvents
        /\ fanout' = IF isGroup /\ ~producer
                     THEN fanout \cup {[rid |-> r, groupId |-> s.in.groupId,
                                        convId |-> c, pc |-> "list", ids |-> {}]}
                     ELSE fanout
        /\ sends' = [sends EXCEPT ![r].pc = "mute"]
        /\ UNCHANGED <<extVars, presVars, readVars, histVars, streams, storeVars, nextId, producer, convLastSeq, lastSeqCache>>

\* One PUBLISH of the Deliver of a send; ok tells whether Redis took it.
Deliver(r, topic, s) ==
    [topic |-> topic, kind |-> "deliver", by |-> r, convId |-> s.in.convId,
     clientMsgId |-> s.in.clientMsgId, serverMsgId |-> s.serverId,
     seq |-> s.seq, payload |-> s.in.payload, ok |-> TRUE]

\* GroupStore.IsMuted, which Send asks after the message was stored and
\* indexed: a muted sender makes Send return an error.
MuteCheck(r) ==
    LET s == sends[r]
        u == From(s)
    IN  /\ s.pc = "mute"
        /\ IF s.in.convType = "group" /\ IsMuted(s.in.groupId, u)
           THEN sends' = [sends EXCEPT ![r].pc = "reply", ![r].err = "SEND_FAILED"]
           ELSE sends' = [sends EXCEPT ![r].pc = "publish"]
        /\ UNCHANGED <<extVars, presVars, readVars, histVars, streams, storeVars, nextId, producer, convLastSeq, userConvs,
                       lastSeqCache, mqEvents, fanout>>

\* A c2c publish that leaves the sender's own channel out.
RecipientOnly(s) ==
    IF s.in.convType = "c2c" THEN {s.in.to} ELSE {s.in.groupId}

\* A group publish that goes to each member's channel.
MemberTopics(s) ==
    IF s.in.convType = "c2c" THEN {s.in.to, From(s)}
    ELSE IF s.in.groupId \in Groups THEN Members[s.in.groupId] ELSE {}

\* The channels Send publishes on: the peer's and the sender's for c2c, the
\* group's otherwise.
DeliverTopics(s) ==
    IF s.in.convType = "c2c" THEN {s.in.to, From(s)}
    ELSE {s.in.groupId}

\* A Send that hands a failed publish back to its caller as an error.
PublishErrorReturned(topics, reached) ==
    IF reached # topics THEN "SEND_FAILED" ELSE ""

\* What Send returns after its publishes: err1, err2 and err are logged and
\* dropped, the return is d, nil.
PublishError(topics, reached) == ""

\* The Redis publishes of Send (a failed publish is only logged), then, back
\* in handleInbound, the ack frame.
PublishAndAck(r) ==
    LET s == sends[r]
        topics == DeliverTopics(s)
    IN  /\ s.pc = "publish"
        /\ \E reached \in SUBSET topics :
             LET err == PublishError(topics, reached) IN
             /\ published' = published \cup
                  {[Deliver(r, t, s) EXCEPT !.ok = (t \in reached)] : t \in topics}
             /\ out' = IF err # "" THEN out
                       ELSE IF s.kind = "send"
                       THEN WriteFrame(s.conn, Frame("ack", r, "", s))
                       ELSE IF s.kind = "start"
                            THEN WriteFrame(s.conn, Frame("stream_started", r, "", s))
                            ELSE out
             /\ sends' = IF err # ""
                         THEN [sends EXCEPT ![r].pc = "reply", ![r].err = err]
                         ELSE [sends EXCEPT ![r].pc = IF s.kind = "end" THEN "del"
                                                      ELSE "done"]
        /\ UNCHANGED <<extVars, presVars, readVars, histVars, streams, now, messages, nextId, producer, convLastSeq,
                       userConvs, lastSeqCache, mqEvents, fanout>>

\* The code of the error frame a handler writes when Send failed; end_stream
\* writes none.
ErrorCode(s) ==
    IF s.kind = "start" THEN "STREAM_START_FAILED"
    ELSE IF s.kind = "chunk" THEN "STREAM_ERROR"
         ELSE s.err

\* Send returned an error: the handler writes SEND_FAILED (a stream handler
\* its own code; EndStream goes on to delete the stream state).
ReplyFailed(r) ==
    LET s == sends[r] IN
    /\ s.pc = "reply"
    /\ out' = IF s.kind = "end" THEN out
              ELSE WriteFrame(s.conn, Frame("error", r, ErrorCode(s), s))
    /\ sends' = [sends EXCEPT ![r].pc = IF s.kind = "end" THEN "del" ELSE "done"]
    /\ UNCHANGED <<extVars, presVars, readVars, histVars, streams, now, messages, published, nextId, producer, convLastSeq,
                   userConvs, lastSeqCache, mqEvents, fanout>>

\* The fallback goroutine of Send: list the members, then upsert them batch
\* by batch.
GroupBatchSize == 1

FanoutList(g) ==
    /\ g \in fanout
    /\ g.pc = "list"
    /\ fanout' = (fanout \ {g}) \cup {[g EXCEPT !.pc = "batch",
                                              !.ids = Members[g.groupId]]}
    /\ UNCHANGED <<extVars, presVars, readVars, histVars, streams, storeVars, nextId, producer, convLastSeq, userConvs,
                   lastSeqCache, mqEvents, sends>>

FanoutBatch(g) ==
    /\ g \in fanout
    /\ g.pc = "batch"
    /\ \E batch \in SUBSET g.ids :
         /\ Cardinality(batch) = IF Cardinality(g.ids) < GroupBatchSize
                                 THEN Cardinality(g.ids) ELSE GroupBatchSize
         /\ userConvs' = userConvs \cup {<<m, g.convId>> : m \in batch}
         /\ fanout' = IF g.ids = batch
                      THEN fanout \ {g}
                      ELSE (fanout \ {g}) \cup {[g EXCEPT !.ids = g.ids \ batch]}
    /\ UNCHANGED <<extVars, presVars, readVars, histVars, streams, storeVars, nextId, producer, convLastSeq, lastSeqCache,
                   mqEvents, sends>>

\* Time passes.
Tick ==
    /\ now < MaxClock
    /\ now' = now + 1
    /\ UNCHANGED <<extVars, presVars, readVars, histVars, messages, published, out, sendVars>>

(***************************************************************************)
(* Streams: the start_stream, stream_chunk and end_stream cases of         *)
(* handleInbound calling StartStream, SendStreamChunk and EndStream, each  *)
(* of which ends in Send.  The stream state is one Redis key per stream,   *)
(* read with GET and written back with SET, two commands; the key lasts    *)
(* StreamTTL after its last SET.  Send takes From from the stream state,   *)
(* whichever connection the stream_chunk or end_stream frame came in on:   *)
(* the two cases pass the streamId only, never the connection's user.      *)
(***************************************************************************)
MaxStreamReq == 3

StreamTTL == 1

StreamReqs == 1..MaxStreamReq

\* What start_stream frames ask for.
StreamInputs ==
    { [NoInput EXCEPT !.convId = "c12", !.to = "u2", !.clientMsgId = "m1",
                      !.payload = "p1"],
      [NoInput EXCEPT !.convId = "cg1", !.convType = "group", !.groupId = "g1",
                      !.clientMsgId = "m1", !.payload = "p1"] }

\* streamID + "-" + seq, and streamID + "-end".
ChunkClientID(id, n) ==
    <<"s1-1", "s1-2", "s1-3", "s1-4", "s1-5", "s1-6", "s1-7", "s1-8">>[n]

EndClientID(id) == "s1-end"

\* GET finds the key: it was set and has not been deleted or timed out.
Alive(id) == streams[id].open /\ now < streams[id].exp

\* uuid.NewString() gives an id no stream had before.
Drawn(id) ==
    \E q \in DOMAIN sends : sends[q].kind = "start" /\ sends[q].streamId = id

\* An EndStream call on the stream has run to its end.
Ended(id) ==
    \E q \in DOMAIN sends : /\ sends[q].kind = "end" /\ sends[q].streamId = id
                            /\ sends[q].found /\ sends[q].pc = "done"

\* The request SendStreamChunk and EndStream build from the stream state.
StreamRequest(info, cid, payload) ==
    [NoInput EXCEPT !.convId = info.convId, !.convType = info.convType,
                    !.to = info.to, !.groupId = info.groupId,
                    !.clientMsgId = cid, !.payload = payload]

\* start_stream, denied by the rate limiter.
StartStreamRateLimited(r) ==
    /\ \E k \in {"k1", "k2"}, p \in StreamInputs :
         LET s == [IdleSend EXCEPT !.pc = DenyPc, !.kind = "start", !.conn = k,
                                   !.in = p, !.err = "RATE_LIMIT"]
         IN  /\ Arrives(r, k)
             /\ sends' = [sends EXCEPT ![r] = s]
             /\ out' = WriteFrame(k, Frame("error", r, "RATE_LIMIT", s))
    /\ UNCHANGED <<extVars, presVars, readVars, histVars, streams, now, messages, published, nextId, producer, convLastSeq,
                   userConvs, lastSeqCache, mqEvents, fanout>>

\* StartStream: a fresh streamId, the stream state set with seq 1, then Send
\* with status start.
StartStream(r) ==
    /\ \E k \in {"k1", "k2"}, p \in StreamInputs, id \in StreamIds :
         /\ Arrives(r, k)
         /\ PermCode(ConnUser[k], p) = ""
         /\ ~Drawn(id)
         /\ streams' = [streams EXCEPT ![id] =
                          [open |-> TRUE, convId |-> p.convId,
                           convType |-> p.convType, from |-> ConnUser[k],
                           to |-> p.to, groupId |-> p.groupId, seq |-> 1,
                           exp |-> now + StreamTTL]]
         /\ sends' = [sends EXCEPT ![r] =
                        [IdleSend EXCEPT !.pc = "begin", !.kind = "start",
                                         !.conn = k, !.in = p,
                                         !.isStreaming = TRUE,
                                         !.streamStatus = "start",
                                         !.streamId = id, !.streamSeq = 1,
                                         !.found = TRUE]]
    /\ UNCHANGED <<extVars, presVars, readVars, histVars, storeVars, nextId, producer, convLastSeq, userConvs,
                   lastSeqCache, mqEvents, fanout>>

\* The connections of the user who starts the streams, and a connection of
\* another user.
OwnerConns == {"k1", "k2"}

StreamCallers == {"k3"}

\* SendStreamChunk, the GET: without the key "stream not found", which the
\* handler answers with STREAM_ERROR.
StreamChunkGetOn(r, ks) ==
    /\ \E k \in ks, id \in StreamIds :
         LET info == streams[id]
             s == [IdleSend EXCEPT !.kind = "chunk", !.conn = k,
                                   !.streamId = id]
             miss == [s EXCEPT !.pc = "done", !.err = "STREAM_NOT_FOUND"]
         IN  /\ Arrives(r, k)
             /\ IF Alive(id)
                THEN /\ sends' = [sends EXCEPT ![r] =
                           [s EXCEPT !.pc = "set", !.found = TRUE,
                                     !.from = info.from,
                                     !.isStreaming = TRUE,
                                     !.streamStatus = "chunk",
                                     !.streamSeq = info.seq + 1,
                                     !.in = StreamRequest(info,
                                              ChunkClientID(id, info.seq + 1),
                                              "d")]]
                     /\ out' = out
                ELSE /\ sends' = [sends EXCEPT ![r] = miss]
                     /\ out' = WriteFrame(k, Frame("error", r, "STREAM_ERROR", miss))
    /\ UNCHANGED <<extVars, presVars, readVars, histVars, streams, now, messages, published, nextId, producer, convLastSeq,
                   userConvs, lastSeqCache, mqEvents, fanout>>

StreamChunkGet(r) == StreamChunkGetOn(r, OwnerConns)

\* stream_chunk on another user's connection: the case hands the streamId
\* to SendStreamChunk, the connection's user is not looked at.
AnyoneChunkGet(r) == StreamChunkGetOn(r, StreamCallers)

\* SendStreamChunk, the SET of the state it read with seq one higher; then
\* Send with status chunk.
StreamChunkSet(r) ==
    LET s == sends[r] IN
    /\ s.pc = "set"
    /\ streams' = [streams EXCEPT ![s.streamId] =
                     [open |-> TRUE, convId |-> s.in.convId,
                      convType |-> s.in.convType, from |-> s.from,
                      to |-> s.in.to, groupId |-> s.in.groupId,
                      seq |-> s.streamSeq, exp |-> now + StreamTTL]]
    /\ sends' = [sends EXCEPT ![r].pc = "begin"]
    /\ UNCHANGED <<extVars, presVars, readVars, histVars, storeVars, nextId, producer, convLastSeq, userConvs,
                   lastSeqCache, mqEvents, fanout>>

\* EndStream, the GET: without the key "stream not found", and the handler
\* writes nothing; with it, Send with status end or error.
EndStreamGetOn(r, ks) ==
    /\ \E k \in ks, id \in StreamIds, e \in {"", "e"} :
         LET info == streams[id]
             s == [IdleSend EXCEPT !.kind = "end", !.conn = k,
                                   !.streamId = id]
         IN  /\ Arrives(r, k)
             /\ IF Alive(id)
                THEN sends' = [sends EXCEPT ![r] =
                         [s EXCEPT !.pc = "begin", !.found = TRUE,
                                   !.from = info.from,
                                   !.isStreaming = TRUE,
                                   !.streamStatus = IF e = "" THEN "end"
                                                    ELSE "error",
                                   !.streamSeq = info.seq + 1,
                                   !.in = StreamRequest(info, EndClientID(id),
                                                        "f")]]
                ELSE sends' = [sends EXCEPT ![r] =
                         [s EXCEPT !.pc = "done", !.err = "STREAM_NOT_FOUND"]]
    /\ UNCHANGED <<extVars, presVars, readVars, histVars, streams, storeVars, nextId, producer, convLastSeq, userConvs,
                   lastSeqCache, mqEvents, fanout>>

EndStreamGet(r) == EndStreamGetOn(r, OwnerConns)

\* end_stream on another user's connection.
AnyoneEndGet(r) == EndStreamGetOn(r, StreamCallers)

\* EndStream, after Send: DEL of the stream state whatever Send returned;
\* the handler writes stream_ended when Send had succeeded.
StreamDel(r) ==
    LET s == sends[r] IN
    /\ s.pc = "del"
    /\ streams' = [streams EXCEPT ![s.streamId] = NoStream]
    /\ out' = IF s.err = ""
              THEN WriteFrame(s.conn, Frame("stream_ended", r, "", s))
              ELSE out
    /\ sends' = [sends EXCEPT ![r].pc = "done"]
    /\ UNCHANGED <<extVars, presVars, readVars, histVars, now, messages, published, nextId, producer, convLastSeq,
                   userConvs, lastSeqCache, mqEvents, fanout>>

(***************************************************************************)
(* Presence: Server.Handle around cache.SetDeviceOnline and                *)
(* cache.SetDeviceOffline.  Handle marks the device online, subscribes to  *)
(* the user's delivery channel, starts the reader goroutine and then       *)
(* blocks in sub.ReceiveMessage; its deferred SetDeviceOffline runs when   *)
(* that loop returns.                                                      *)
(***************************************************************************)
MaxConnects == 2     \* times one connection slot is opened
MaxInbox == 1        \* deliveries waiting in one subscription

IdleConn == [pc |-> "closed", reader |-> "none", inbox |-> 0, n |-> 0,
             connects |-> 0]

\* SetDeviceOnline: SADD devices and SADD online in one MULTI/EXEC.
SetDeviceOnline(k) ==
    /\ devices' = [devices EXCEPT ![ConnUser[k]] = @ \cup {ConnDevice[k]}]
    /\ online' = online \cup {ConnUser[k]}

\* Handle up to the start of the two loops.
Connect(k) ==
    /\ conns[k].pc = "closed"
    /\ conns[k].connects < MaxConnects
    /\ SetDeviceOnline(k)
    /\ conns' = [conns EXCEPT ![k] = [pc |-> "open", reader |-> "reading",
                                       inbox |-> 0, n |-> 0,
                                       connects |-> @.connects + 1]]
    /\ UNCHANGED <<extVars, histVars, storeVars, sendVars, readVars>>

\* conn.ReadMessage fails (the client went away, a transport error): the
\* reader goroutine logs and returns.
ReaderStops(k) ==
    /\ conns[k].pc = "open"
    /\ conns[k].reader = "reading"
    /\ conns' = [conns EXCEPT ![k].reader = "stopped"]
    /\ UNCHANGED <<extVars, histVars, storeVars, sendVars, readVars, devices, online>>

\* Somebody publishes on the delivery channel of user u: every subscription
\* of u receives it.
PublishTo(u) ==
    /\ \E k \in Conns : ConnUser[k] = u /\ conns[k].pc = "open"
    /\ \A k \in Conns : conns[k].inbox < MaxInbox
    /\ conns' = [k \in Conns |->
                   IF ConnUser[k] = u /\ conns[k].pc = "open"
                   THEN [conns[k] EXCEPT !.inbox = @ + 1]
                   ELSE conns[k]]
    /\ UNCHANGED <<extVars, histVars, storeVars, sendVars, readVars, devices, online>>

\* The writer loop: ReceiveMessage returns a delivery and WriteMessage sends
\* it, or fails (error, 10 s deadline) and Handle returns.
WriterDelivers(k) ==
    /\ conns[k].pc = "open"
    /\ conns[k].inbox > 0
    /\ \E ok \in BOOLEAN :
         conns' = [conns EXCEPT ![k].inbox = @ - 1,
                                ![k].pc = IF ok THEN "open" ELSE "offline"]
    /\ UNCHANGED <<extVars, histVars, storeVars, sendVars, readVars, devices, online>>

\* ReceiveMessage itself fails (the Redis connection is lost): Handle returns.
WriterReceiveError(k) ==
    /\ conns[k].pc = "open"
    /\ conns' = [conns EXCEPT ![k].pc = "offline"]
    /\ UNCHANGED <<extVars, histVars, storeVars, sendVars, readVars, devices, online>>

\* SetDeviceOffline, first command: SREM devices:<user> device.
OfflineSRem(k) ==
    /\ conns[k].pc = "offline"
    /\ devices' = [devices EXCEPT ![ConnUser[k]] = @ \ {ConnDevice[k]}]
    /\ conns' = [conns EXCEPT ![k].pc = "scard"]
    /\ UNCHANGED <<extVars, histVars, storeVars, sendVars, readVars, online>>

\* Second command: SCARD devices:<user>.
OfflineSCard(k) ==
    /\ conns[k].pc = "scard"
    /\ conns' = [conns EXCEPT ![k].pc = "evict",
                              ![k].n = Cardinality(devices[ConnUser[k]])]
    /\ UNCHANGED <<extVars, histVars, storeVars, sendVars, readVars, devices, online>>

\* Third: if n == 0, SREM online user.  Then conn.Close() runs, which ends a
\* reader still blocked in ReadMessage.
OfflineEvict(k) ==
    /\ conns[k].pc = "evict"
    /\ online' = IF conns[k].n = 0 THEN online \ {ConnUser[k]} ELSE online
    /\ conns' = [conns EXCEPT ![k].pc = "closed", ![k].reader = "none",
                              ![k].inbox = 0]
    /\ UNCHANGED <<extVars, histVars, storeVars, sendVars, readVars, devices>>

(***************************************************************************)
(* Read receipts: the WS read action, POST /api/messages/read and          *)
(* POST /api/unread/mark_all_read.                                         *)
(***************************************************************************)
MaxRead == 2         \* read / mark-all-read requests in one behaviour
MaxSeq == 2          \* largest seq a client puts in a read receipt

ReadReqs == 1..MaxRead

ReadConvs == {"", "c12", "cg1"}

NoMsg == [serverMsgId |-> 0, clientMsgId |-> "", convId |-> "",
          convType |-> "c2c", from |-> "", to |-> "", groupId |-> "",
          seq |-> 0, timestamp |-> 0, payload |-> "", recalled |-> FALSE,
          expireAt |-> 0, burnAfterRead |-> FALSE]

IdleRead == [pc |-> "idle", kind |-> "", conn |-> "k1", user |-> "u1",
             convId |-> "", seq |-> 0, msg |-> NoMsg, upserted |-> FALSE,
             before |-> 0, convIDs |-> <<>>,
             lastSeqs |-> [c \in ConvIds |-> 0], attempt |-> 0, status |-> 0]

\* A statement that stores the incoming value whatever the row holds.
OverwriteReadSeq(old, seq) == seq

\* ReceiptStore.UpsertReadSeq: seq = IF(VALUES(seq) > seq, VALUES(seq), seq).
UpsertReadSeq(old, seq) == IF seq > old THEN seq ELSE old

\* The rows of read_receipts a mark-all-read transaction has written and not
\* yet committed: InnoDB keeps them locked, other writers wait.
TxRows(r) ==
    {<<r.user, r.convIDs[i]>> : i \in {j \in 1..Len(r.convIDs) :
                                          r.lastSeqs[r.convIDs[j]] > 0}}

RowLocked(uc) ==
    \E x \in ReadReqs : /\ reads[x].kind = "mark"
                        /\ reads[x].pc = "commit"
                        /\ uc \in TxRows(reads[x])

\* The reader loop of a connection runs one handleInbound at a time.
ReadBusy(k) ==
    \E q \in ReadReqs : /\ reads[q].kind = "ws"
                        /\ reads[q].pc \notin {"idle", "done"}
                        /\ reads[q].conn = k

ReadArrives(q) ==
    /\ reads[q].pc = "idle"
    /\ \A x \in ReadReqs : x < q => reads[x].pc # "idle"

ReadFrame(q, c, n) ==
    [action |-> "read_ack", rid |-> q, code |-> "", convId |-> c,
     clientMsgId |-> "", serverMsgId |-> 0, seq |-> n]

\* case "read", step 1: the read_ack frame.
ReadAck(q) ==
    /\ \E k \in Conns, c \in ReadConvs, n \in 1..MaxSeq :
         /\ ReadArrives(q)
         /\ ~ReadBusy(k)
         /\ reads' = [reads EXCEPT ![q] = [IdleRead EXCEPT
                         !.pc = "upsert", !.kind = "ws", !.conn = k,
                         !.user = ConnUser[k], !.convId = c, !.seq = n]]
         /\ out' = WriteFrame(k, ReadFrame(q, c, n))
    /\ UNCHANGED <<extVars, histVars, now, messages, published, sendVars, presVars,
                   readReceipts, readSeqCache>>

\* step 1.5: Receipt.UpsertReadSeq, its error dropped.
ReadUpsert(q) ==
    LET r == reads[q]
        uc == <<r.user, r.convId>>
    IN  /\ r.kind = "ws"
        /\ r.pc = "upsert"
        /\ ~RowLocked(uc)
        /\ \E ok \in BOOLEAN :
             IF ok
             THEN /\ readReceipts' = [readReceipts EXCEPT ![uc] =
                                         UpsertReadSeq(@, r.seq)]
                  /\ reads' = [reads EXCEPT ![q].pc = "cache",
                                            ![q].upserted = TRUE,
                                            ![q].before = readReceipts[uc]]
             ELSE /\ readReceipts' = readReceipts
                  /\ reads' = [reads EXCEPT ![q].pc = "cache"]
        /\ UNCHANGED <<extVars, histVars, storeVars, sendVars, presVars, readSeqCache>>

\* cache.Client().Set("im:readseq:<user>:<conv>", p.Seq)
ReadCache(q) ==
    LET r == reads[q] IN
    /\ r.kind = "ws"
    /\ r.pc = "cache"
    /\ readSeqCache' = [readSeqCache EXCEPT ![<<r.user, r.convId>>] = r.seq]
    /\ reads' = [reads EXCEPT ![q].pc = "get"]
    /\ UNCHANGED <<extVars, histVars, storeVars, sendVars, presVars, readReceipts>>

\* MessageStore.GetBySeq: one row with that (conv_id, seq), if there is one.
GetBySeq(log, c, n) == {m \in log : m.convId = c /\ m.seq = n}

\* step 2: GetBySeq, and the test msg.BurnAfterRead && !msg.Recalled.
ReadGetBySeq(q) ==
    LET r == reads[q]
        found == GetBySeq(messages, r.convId, r.seq)
    IN  /\ r.kind = "ws"
        /\ r.pc = "get"
        /\ \/ /\ found = {}
              /\ reads' = [reads EXCEPT ![q].pc = "done"]
           \/ \E m \in found :
                reads' = [reads EXCEPT
                            ![q].msg = m,
                            ![q].pc = IF m.burnAfterRead /\ ~m.recalled
                                      THEN "recall" ELSE "done"]
        /\ UNCHANGED <<extVars, histVars, storeVars, sendVars, presVars, readReceipts,
                       readSeqCache>>

\* MessageStore.RecallBySeq:
\* UPDATE messages SET recalled=1 WHERE conv_id=? AND seq=? AND burn_after_read=1
RecallBySeq(log, c, n) ==
    {IF m.convId = c /\ m.seq = n /\ m.burnAfterRead
     THEN [m EXCEPT !.recalled = TRUE] ELSE m : m \in log}

ReadRecallBySeq(q) ==
    LET r == reads[q] IN
    /\ r.kind = "ws"
    /\ r.pc = "recall"
    /\ \E ok \in BOOLEAN :
         IF ok
         THEN /\ messages' = RecallBySeq(messages, r.convId, r.seq)
              /\ reads' = [reads EXCEPT ![q].pc = "publish"]
         ELSE /\ messages' = messages
              /\ reads' = [reads EXCEPT ![q].pc = "done"]
    /\ UNCHANGED <<extVars, histVars, now, published, out, sendVars, presVars, receiptVars>>

Recalled(q, topic, c, n) ==
    [topic |-> topic, kind |-> "recalled", by |-> q, convId |-> c,
     clientMsgId |-> "", serverMsgId |-> 0, seq |-> n, payload |-> "",
     ok |-> TRUE]

\* The recalled event goes to the peer and the sender of a c2c message, or to
\* the group's channel; a failed publish is dropped.
RecalledTopics(m) ==
    IF m.convType = "c2c"
    THEN {m.to, m.from} \ {""}
    ELSE IF m.convType = "group" THEN {m.groupId} \ {""} ELSE {}

ReadPublishRecalled(q) ==
    LET r == reads[q] IN
    /\ r.kind = "ws"
    /\ r.pc = "publish"
    /\ \E reached \in SUBSET RecalledTopics(r.msg) :
         published' = published \cup
                        {Recalled(q, t, r.convId, r.seq) : t \in reached}
    /\ reads' = [reads EXCEPT ![q].pc = "done"]
    /\ UNCHANGED <<extVars, histVars, now, messages, out, sendVars, presVars, receiptVars>>

\* POST /api/messages/read: UpsertReadSeq, 500 on its error.
HttpReadUpsert(q) ==
    /\ \E u \in {"u1", "u2"}, c \in ReadConvs, n \in 1..MaxSeq, ok \in BOOLEAN :
         /\ ReadArrives(q)
         /\ ~RowLocked(<<u, c>>)
         /\ IF ok
            THEN /\ readReceipts' = [readReceipts EXCEPT ![<<u, c>>] =
                                        UpsertReadSeq(@, n)]
                 /\ reads' = [reads EXCEPT ![q] = [IdleRead EXCEPT
                                 !.pc = "cache", !.kind = "http", !.user = u,
                                 !.convId = c, !.seq = n, !.upserted = TRUE,
                                 !.before = readReceipts[<<u, c>>]]]
            ELSE /\ readReceipts' = readReceipts
                 /\ reads' = [reads EXCEPT ![q] = [IdleRead EXCEPT
                                 !.pc = "done", !.kind = "http", !.user = u,
                                 !.convId = c, !.seq = n, !.status = 500]]
    /\ UNCHANGED <<extVars, histVars, storeVars, sendVars, presVars, readSeqCache>>

\* ... then the cache write and 204.
HttpReadCache(q) ==
    LET r == reads[q] IN
    /\ r.kind = "http"
    /\ r.pc = "cache"
    /\ readSeqCache' = [readSeqCache EXCEPT ![<<r.user, r.convId>>] = r.seq]
    /\ reads' = [reads EXCEPT ![q].pc = "done", ![q].status = 204]
    /\ UNCHANGED <<extVars, histVars, storeVars, sendVars, presVars, readReceipts>>

\* rows.Scan(&convID, &convType, &peerID, &groupID, &updatedAt) on a row of
\* ListByUser, which selects eight columns: Scan returns an error, which the
\* handler drops, and assigns nothing, so convID keeps its zero value.
ScanConvID(rowIndex) == ""

ListByUser(u) == {uc \in userConvs : uc[1] = u}

\* The handler's lastSeq of a conversation: the cached value, else the row of
\* conversations (which it then caches).
LastSeqOf(c) == IF lastSeqCache[c] # 0 THEN lastSeqCache[c] ELSE convLastSeq[c]

\* POST /api/unread/mark_all_read up to the call of MarkAllReadInChunks.
MarkAllReadCollect(q) ==
    /\ \E u \in {"u1", "u2"} :
         LET rows == ListByUser(u)
             ids == [i \in 1..Cardinality(rows) |-> ScanConvID(i)]
             seen == {ids[i] : i \in 1..Len(ids)}
         IN  /\ ReadArrives(q)
             /\ lastSeqCache' = [c \in ConvIds |->
                                   IF c \in seen THEN LastSeqOf(c)
                                   ELSE lastSeqCache[c]]
             /\ reads' = [reads EXCEPT ![q] = [IdleRead EXCEPT
                             !.pc = IF ids = <<>> THEN "done" ELSE "tx",
                             !.status = IF ids = <<>> THEN 204 ELSE 0,
                             !.kind = "mark", !.user = u, !.convIDs = ids,
                             !.lastSeqs = [c \in ConvIds |->
                                             IF c \in seen THEN LastSeqOf(c)
                                             ELSE 0]]]
    /\ UNCHANGED <<extVars, histVars, storeVars, presVars, receiptVars, nextId, producer,
                   convLastSeq, userConvs, mqEvents, fanout, sends, streams>>

MarkAllReadRetry == 1

\* ReceiptStore.MarkAllReadTx inside MarkAllReadInChunks (the handler's list
\* is one chunk): the statements run one by one, each followed by its cache
\* write; an error rolls back and the chunk is tried again, retry times.
MarkAllReadTx(q) ==
    LET r == reads[q]
        wrote(n) == {<<r.user, r.convIDs[i]>> :
                       i \in {j \in 1..n : r.lastSeqs[r.convIDs[j]] > 0}}
    IN  /\ r.kind = "mark"
        /\ r.pc = "tx"
        /\ \A uc \in TxRows(r) : ~RowLocked(uc)
        /\ \E n \in 0..Len(r.convIDs) :
             /\ readSeqCache' = [uc \in Users \X ConvIds |->
                                   IF uc \in wrote(n) THEN r.lastSeqs[uc[2]]
                                   ELSE readSeqCache[uc]]
             /\ reads' = [reads EXCEPT
                            ![q].pc = IF n = Len(r.convIDs) THEN "commit"
                                      ELSE IF r.attempt < MarkAllReadRetry
                                           THEN "tx" ELSE "done",
                            ![q].attempt = IF n = Len(r.convIDs) THEN @ ELSE @ + 1,
                            ![q].status = IF n < Len(r.convIDs)
                                             /\ r.attempt >= MarkAllReadRetry
                                          THEN 500 ELSE 0]
        /\ UNCHANGED <<extVars, histVars, storeVars, sendVars, presVars, readReceipts>>

\* The rows a committed MarkAllReadTx leaves:
\* INSERT ... ON DUPLICATE KEY UPDATE seq=VALUES(seq), skipping seq <= 0.
MarkAllReadRows(rr, r) ==
    [uc \in Users \X ConvIds |->
        IF uc \in TxRows(r) THEN r.lastSeqs[uc[2]] ELSE rr[uc]]

\* tx.Commit(), its error dropped; the handler answers 204.
MarkAllReadCommit(q) ==
    LET r == reads[q] IN
    /\ r.kind = "mark"
    /\ r.pc = "commit"
    /\ \E ok \in BOOLEAN :
         readReceipts' = IF ok THEN MarkAllReadRows(readReceipts, r)
                         ELSE readReceipts
    /\ reads' = [reads EXCEPT ![q].pc = "done", ![q].status = 204]
    /\ UNCHANGED <<extVars, histVars, storeVars, sendVars, presVars, readSeqCache>>

(***************************************************************************)
(* Recall, conversation delete, history and the expiry sweep: the HTTP     *)
(* routes of main, the recall frame of the gateway, and the MessageStore   *)
(* statements behind them.  handled holds the call handled last: who made  *)
(* it, when, and what it answered.                                         *)
(***************************************************************************)
DefaultLimit == 50

MaxLimit == 200

NoCall == [kind |-> "none", via |-> "", user |-> "", convId |-> "",
           serverMsgId |-> 0, fromSeq |-> 0, limit |-> 0, at |-> 0,
           status |-> 0, body |-> <<>>]

\* What the clients send: conversation, message id, cursor and limit (0 is
\* also what the handler holds when the query has no limit).
HistConvs == {"c12", "cg1"}

RecallIds == {1, 3}

DeleteConvs == {"c12"}

HistFromSeqs == {0, 1}

HistLimits == {-1, 0, 1, 2, 201}

\* UPDATE messages SET recalled=1 WHERE conv_id=? AND server_msg_id=?
\* A recall that also blanks the payload of the row.
RecallAndWipe(log, c, id) ==
    {IF m.convId = c /\ m.serverMsgId = id
     THEN [m EXCEPT !.recalled = TRUE, !.payload = ""] ELSE m : m \in log}

Recall(log, c, id) ==
    {IF m.convId = c /\ m.serverMsgId = id
     THEN [m EXCEPT !.recalled = TRUE] ELSE m : m \in log}

\* INSERT INTO conv_deletes ... ON DUPLICATE KEY UPDATE deleted_at
DeleteConversation(rows, owner, c, t) == [rows EXCEPT ![<<owner, c>>] = t]

\* List without the guard on limit: LIMIT takes what the caller passed.
RawLimit(limit) == IF limit < 0 THEN 0 ELSE limit

\* if limit <= 0 || limit > 200 { limit = 50 }
EffectiveLimit(limit) ==
    IF limit <= 0 \/ limit > MaxLimit THEN DefaultLimit ELSE limit

\* WHERE conv_id=? AND seq>? AND recalled=0
\*   AND (expire_at IS NULL OR expire_at>NOW())
ListWhere(log, c, fromSeq, t) ==
    {m \in log : /\ m.convId = c
                 /\ m.seq > fromSeq
                 /\ ~m.recalled
                 /\ (m.expireAt = 0 \/ m.expireAt > t)}

\* ORDER BY seq ASC LIMIT n: the results the statement can give (rows of
\* one seq come in either order).
OrderBySeqLimit(rows, n) ==
    LET len == IF Cardinality(rows) < n THEN Cardinality(rows) ELSE n
    IN  {s \in [1..len -> rows] :
           /\ \A i, j \in 1..len : i < j => s[i] # s[j] /\ s[i].seq <= s[j].seq
           /\ \A m \in rows \ {s[i] : i \in 1..len} :
                \A i \in 1..len : s[i].seq <= m.seq}

List(log, c, fromSeq, limit, t) ==
    OrderBySeqLimit(ListWhere(log, c, fromSeq, t), EffectiveLimit(limit))

\* A sweep that takes the rows that expire strictly before t only.
DeleteExpiredBefore(log, t) ==
    {m \in log : ~(m.expireAt # 0 /\ m.expireAt < t)}

\* DELETE FROM messages WHERE expire_at IS NOT NULL AND expire_at<=?
DeleteExpired(log, t) ==
    {m \in log : ~(m.expireAt # 0 /\ m.expireAt <= t)}

\* POST /api/messages/recall: any authenticated user, any message; 204, or
\* 500 when the store fails.
HttpRecall(u) ==
    /\ \E c \in HistConvs, id \in RecallIds, ok \in BOOLEAN :
         /\ messages' = IF ok THEN Recall(messages, c, id) ELSE messages
         /\ handled' = [NoCall EXCEPT !.kind = "recall", !.via = "http",
                                      !.user = u, !.convId = c,
                                      !.serverMsgId = id, !.at = now,
                                      !.status = IF ok THEN 204 ELSE 500]
    /\ UNCHANGED <<extVars, now, published, out, sendVars, presVars, readVars, convDeletes>>

\* The recall frame: MsgSvc.Recall with the frame's ids, its error dropped,
\* no frame written.
WsRecall(k) ==
    /\ ~Busy(k)
    /\ \E c \in HistConvs, id \in RecallIds, ok \in BOOLEAN :
         /\ messages' = IF ok THEN Recall(messages, c, id) ELSE messages
         /\ handled' = [NoCall EXCEPT !.kind = "recall", !.via = "ws",
                                      !.user = ConnUser[k], !.convId = c,
                                      !.serverMsgId = id, !.at = now,
                                      !.status = IF ok THEN 204 ELSE 500]
    /\ UNCHANGED <<extVars, now, published, out, sendVars, presVars, readVars, convDeletes>>

\* POST /api/conversations/delete: the caller's watermark becomes now.
HttpDeleteConversation(u) ==
    /\ \E c \in DeleteConvs, ok \in BOOLEAN :
         /\ convDeletes' = IF ok THEN DeleteConversation(convDeletes, u, c, now)
                           ELSE convDeletes
         /\ handled' = [NoCall EXCEPT !.kind = "delete", !.via = "http",
                                      !.user = u, !.convId = c, !.at = now,
                                      !.status = IF ok THEN 204 ELSE 500]
    /\ UNCHANGED <<extVars, storeVars, sendVars, presVars, readVars>>

\* GET /api/messages/history: the uid is dropped, List answers.
HttpHistory(u) ==
    /\ \E c \in HistConvs, fromSeq \in HistFromSeqs, limit \in HistLimits :
         \/ \E body \in List(messages, c, fromSeq, limit, now) :
              handled' = [NoCall EXCEPT !.kind = "history", !.via = "http",
                                        !.user = u, !.convId = c,
                                        !.fromSeq = fromSeq, !.limit = limit,
                                        !.at = now, !.status = 200,
                                        !.body = body]
         \/ handled' = [NoCall EXCEPT !.kind = "history", !.via = "http",
                                      !.user = u, !.convId = c,
                                      !.fromSeq = fromSeq, !.limit = limit,
                                      !.at = now, !.status = 500]
    /\ UNCHANGED <<extVars, storeVars, sendVars, presVars, readVars, convDeletes>>

\* The sweep ticker of main: DeleteExpired(now) every minute, an error only
\* logged.
SweepExpired ==
    /\ \E ok \in BOOLEAN :
         /\ messages' = IF ok THEN DeleteExpired(messages, now) ELSE messages
         /\ handled' = [NoCall EXCEPT !.kind = "sweep", !.at = now,
                                      !.status = IF ok THEN 204 ELSE 500]
    /\ UNCHANGED <<extVars, now, published, out, sendVars, presVars, readVars, convDeletes>>

(***************************************************************************)
(* The rate limiter: Server.rateLimitAllow calling                         *)
(* TokenBucketLimiter.Allow on the key im:tb:ws:send:<user>:<device>.      *)
(* Allow reads the clock in the gateway and then runs the Lua script,      *)
(* which Redis executes atomically.  Token counts are kept in thousandths  *)
(* of a token, which is what one millisecond adds at one token per second. *)
(* The callers are the reader goroutines of two connections the user       *)
(* opened with the same deviceId.                                          *)
(***************************************************************************)
SendQPS == 500       \* Server.SendQPS, tokens per second
SendBurst == 2       \* Server.SendBurst
MaxMs == 6           \* the clock stops here
MaxAllow == 8        \* Allow calls on the key

Milli == 1000

KeyTTL == 2000

LimitCallers == {"a1", "a2"}

IdleAllow == [pc |-> "idle", nowMs |-> 0]

NoKeys == [tokens |-> 0, ts |-> 0, exp |-> 0]

Min(a, b) == IF a < b THEN a ELSE b

\* A refill that is not capped at the burst.
RefillUncapped(tokens, add, burst) == tokens + add

\* new_tokens = math.min(burst, tokens + add)
Refill(tokens, add, burst) == Min(burst * Milli, tokens + add)

\* The Lua script run at time at with ARGV = rate, burst, now_ms: the verdict
\* and the keys it leaves.  A key that has expired reads as nil.
Script(b, rate, burst, nowMs, at) ==
    LET present == at < b.exp
        tokens == IF present THEN b.tokens ELSE burst * Milli
        ts == IF present THEN b.ts ELSE nowMs
        delta == Max(0, nowMs - ts)
        add == delta * rate
        filled == Refill(tokens, add, burst)
        allowed == filled >= Milli
    IN  [allowed |-> allowed,
         keys |-> [tokens |-> IF allowed THEN filled - Milli ELSE filled,
                   ts |-> nowMs,
                   exp |-> at + KeyTTL],
         filled |-> filled]

\* What Allow calls have returned so far: the last return, how many calls
\* there were, whether one failed, whether one was denied, and for each millisecond how many
\* calls that read it as nowMs the script allowed after the first denial.
NoVerdicts ==
    [calls |-> 0, allowed |-> FALSE, err |-> FALSE, failed |-> FALSE,
     denied |-> FALSE,
     allowedAt |-> [t \in 0..MaxMs |-> 0]]

Returned(v, nowMs, allowed, err) ==
    [calls |-> v.calls + 1, allowed |-> allowed, err |-> err,
     failed |-> v.failed \/ err,
     denied |-> v.denied \/ ~allowed,
     allowedAt |-> IF allowed /\ ~err /\ v.denied
                   THEN [v.allowedAt EXCEPT ![nowMs] = @ + 1]
                   ELSE v.allowedAt]

Calls == verdicts.calls + Cardinality({c \in LimitCallers : allows[c].pc # "idle"})

\* Allow, line 59: nowMs := time.Now().UnixMilli()
AllowReadClock(c) ==
    /\ allows[c].pc = "idle"
    /\ Calls < MaxAllow
    /\ allows' = [allows EXCEPT ![c] = [pc |-> "script", nowMs |-> clockMs]]
    /\ UNCHANGED <<storeVars, sendVars, presVars, readVars, histVars, subVars,
                   clockMs, bucket, verdicts, muVars, chunkVars>>

\* luaScript.Run answers: the script has run, Allow returns its verdict.
AllowRunScript(c) ==
    LET a == allows[c]
        res == Script(bucket, SendQPS, SendBurst, a.nowMs, clockMs)
    IN  /\ a.pc = "script"
        /\ bucket' = res.keys
        /\ verdicts' = Returned(verdicts, a.nowMs, res.allowed, FALSE)
        /\ allows' = [allows EXCEPT ![c] = IdleAllow]
        /\ UNCHANGED <<storeVars, sendVars, presVars, readVars, histVars, subVars,
                       clockMs, muVars, chunkVars>>

\* luaScript.Run returns an error: Allow returns true, 0, err, and
\* rateLimitAllow lets the frame pass.  The script has run or not.
AllowFailsOpen(c) ==
    LET a == allows[c]
        res == Script(bucket, SendQPS, SendBurst, a.nowMs, clockMs)
    IN  /\ a.pc = "script"
        /\ \E ran \in BOOLEAN : bucket' = IF ran THEN res.keys ELSE bucket
        /\ verdicts' = Returned(verdicts, a.nowMs, TRUE, TRUE)
        /\ allows' = [allows EXCEPT ![c] = IdleAllow]
        /\ UNCHANGED <<storeVars, sendVars, presVars, readVars, histVars, subVars,
                       clockMs, muVars, chunkVars>>

\* Whether a frame reached Allow during the current millisecond.
ArrivedNow ==
    \/ \E c \in LimitCallers : allows[c].pc # "idle" /\ allows[c].nowMs = clockMs
    \/ bucket.exp # 0 /\ bucket.ts = clockMs

\* A millisecond passes.  The client keeps sending: no millisecond goes by
\* without a frame, which is a request rate above SendQPS + SendBurst.
LimitTick ==
    /\ clockMs < MaxMs
    /\ ArrivedNow
    /\ clockMs' = clockMs + 1
    /\ UNCHANGED <<storeVars, sendVars, presVars, readVars, histVars, subVars,
                   bucket, allows, verdicts, muVars, chunkVars>>

InitLimiter ==
    /\ clockMs = 0
    /\ bucket = NoKeys
    /\ allows = [c \in LimitCallers |-> IdleAllow]
    /\ verdicts = NoVerdicts

(***************************************************************************)
(* The writers of a connection.  Server.Handle makes one sync.Mutex per    *)
(* connection and hands it to handleInbound.  Frames are written by the    *)
(* reader goroutine (every reply of handleInbound: ack, error, read_ack,   *)
(* stream and signalling frames), by Handle's own loop relaying the user's *)
(* delivery channel, and by one goroutine per subscribe_group frame        *)
(* relaying a group channel.  conn.WriteMessage takes time: a write is in  *)
(* progress from its call to its return.                                   *)
(***************************************************************************)
MuConns == {"k1", "k2"}

GroupRelays == {"group1", "group2"}

Writers == {"reader", "relay"} \cup GroupRelays

\* A Lock that does not wait for the holder.
LockAnyway(k) == TRUE

\* sync.Mutex.Lock returns when nobody holds the mutex.
CanLock(k) == writeMu[k] = ""

\* handleInbound has a frame to write: it calls writeMu.Lock().
HandlerReplies(k) ==
    /\ writers[k]["reader"] = "idle"
    /\ writers' = [writers EXCEPT ![k]["reader"] = "lock"]
    /\ UNCHANGED <<storeVars, sendVars, presVars, readVars, histVars, subVars,
                   limVars, writeMu, chunkVars>>

\* case subscribe_group: go func(gid) { sub := Subscribe(...); for { ... } }
SubscribeGroup(k, g) ==
    /\ writers[k]["reader"] = "idle"
    /\ writers[k][g] = "off"
    /\ writers' = [writers EXCEPT ![k][g] = "idle"]
    /\ UNCHANGED <<storeVars, sendVars, presVars, readVars, histVars, subVars,
                   limVars, writeMu, chunkVars>>

\* sub.ReceiveMessage returns a message to relay; Handle's loop sets the
\* write deadline next, the group goroutines go straight to the mutex.
RelayReceives(k, w) ==
    /\ w # "reader"
    /\ writers[k][w] = "idle"
    /\ writers' = [writers EXCEPT ![k][w] = IF w = "relay" THEN "deadline"
                                            ELSE "lock"]
    /\ UNCHANGED <<storeVars, sendVars, presVars, readVars, histVars, subVars,
                   limVars, writeMu, chunkVars>>

\* conn.SetWriteDeadline(...), before the mutex is taken.
SetWriteDeadline(k) ==
    /\ writers[k]["relay"] = "deadline"
    /\ writers' = [writers EXCEPT ![k]["relay"] = "lock"]
    /\ UNCHANGED <<storeVars, sendVars, presVars, readVars, histVars, subVars,
                   limVars, writeMu, chunkVars>>

\* writeMu.Lock() returns and conn.WriteMessage begins.
LockAndWrite(k, w) ==
    /\ writers[k][w] = "lock"
    /\ CanLock(k)
    /\ writeMu' = [writeMu EXCEPT ![k] = w]
    /\ writers' = [writers EXCEPT ![k][w] = "write"]
    /\ UNCHANGED <<storeVars, sendVars, presVars, readVars, histVars, subVars,
                   limVars, chunkVars>>

\* conn.WriteMessage returns, then writeMu.Unlock().  A relay whose write
\* failed returns; the reader goes on with the next frame.
WriteReturns(k, w) ==
    /\ writers[k][w] = "write"
    /\ writeMu' = [writeMu EXCEPT ![k] = IF @ = w THEN "" ELSE @]
    /\ \E failed \in BOOLEAN :
         writers' = [writers EXCEPT ![k][w] = IF failed /\ w # "reader"
                                              THEN "gone" ELSE "idle"]
    /\ UNCHANGED <<storeVars, sendVars, presVars, readVars, histVars, subVars,
                   limVars, chunkVars>>

InitWriters ==
    /\ writeMu = [k \in MuConns |-> ""]
    /\ writers = [k \in MuConns |->
                    [w \in Writers |-> IF w \in GroupRelays THEN "off"
                                       ELSE "idle"]]

(***************************************************************************)
(* ReceiptStore.MarkAllReadInChunks and, inside its goroutines,            *)
(* ReceiptStore.MarkAllReadTx.  The call's arguments are drawn when it     *)
(* begins.  Each SQL statement and each Redis command is one step; what a  *)
(* transaction wrote becomes visible in read_receipts when it commits, and *)
(* a row it wrote stays locked until it ends.                              *)
(***************************************************************************)
ChunkSizeDefault == 200

ConcurrencyDefault == 4

ChunkUser == "u1"

\* The lists a caller passes; the mark_all_read route passes as many empty
\* ids as the user has conversations.
ChunkLists == {<<>>, <<"c12">>, <<"c12", "cg1">>, <<"c12", "c13", "cg1">>,
               <<"", "">>}

ChunkLastSeqs ==
    [c \in ConvIds |-> IF c = "c12" THEN 2
                       ELSE IF c \in {"cg1", ""} THEN 1 ELSE 0]

ChunkSizes == {0, 1, 2}

Concurrencies == {0, 1, 2}

Retries == {-1, 0, 1}

ChunkIds == 1..3

NoErr == [chunk |-> 0, attempt |-> 0]

IdleWorker == [pc |-> "off", attempt |-> 0, j |-> 1, tx |-> {}, err |-> NoErr,
               attempts |-> 0, dirty |-> {}, returnedNil |-> FALSE]

\* if chunkSize <= 0 { chunkSize = 200 }, and so on.
EffChunkSize(n) == IF n <= 0 THEN ChunkSizeDefault ELSE n

EffConcurrency(n) == IF n <= 0 THEN ConcurrencyDefault ELSE n

EffRetry(n) == IF n < 0 THEN 0 ELSE n

\* for i := 0; i < len(convIDs); i += chunkSize { ... convIDs[i:end] }
RECURSIVE SplitFrom(_, _, _)
SplitFrom(ids, i, size) ==
    IF i >= Len(ids) THEN <<>>
    ELSE <<SubSeq(ids, i + 1, Min(i + size, Len(ids)))>>
         \o SplitFrom(ids, i + size, size)

\* The goroutines between sem <- struct{}{} and <-sem.
Running == {i \in ChunkIds : workers[i].pc \notin {"off", "done"}}

\* A semaphore that always has room.
SemUnbounded(n) == TRUE

\* sem <- struct{}{} on a channel of capacity n goes through.
SemHasRoom(n) == Cardinality(Running) < n

\* A recorder that keeps the error recorded last.
KeepLast(firstErr, e) == e

\* if firstErr == nil { firstErr = err }
KeepFirst(firstErr, e) == IF firstErr = NoErr THEN e ELSE firstErr

\* Rows another transaction of the call has written and not yet ended.
LockedByOther(i, cid) ==
    \E k \in ChunkIds : k # i /\ cid \in workers[k].tx

\* The first position from j on whose conversation has lastSeq > 0
\* (seq <= 0: continue), or one past the end.
RECURSIVE NextRow(_, _)
NextRow(ch, j) ==
    IF j > Len(ch) THEN j
    ELSE IF inChunks.lastSeqs[ch[j]] <= 0 THEN NextRow(ch, j + 1) ELSE j

\* Where a goroutine goes after a failed attempt: the next attempt while
\* attempt < retry, else the recording of its error.
AfterFailure(w, i) ==
    IF w.attempt < EffRetry(inChunks.retry)
    THEN [w EXCEPT !.pc = "begin", !.attempt = @ + 1, !.tx = {}, !.j = 1]
    ELSE [w EXCEPT !.pc = "record", !.tx = {}, !.j = 1,
                   !.err = [chunk |-> i, attempt |-> w.attempt]]

\* The slicing loop of MarkAllReadInChunks.
SplitChunks ==
    /\ inChunks.pc = "split"
    /\ inChunks' = [inChunks EXCEPT
                      !.pc = "loop",
                      !.chunks = SplitFrom(inChunks.convIDs, 0,
                                           EffChunkSize(inChunks.chunkSize))]
    /\ UNCHANGED <<storeVars, sendVars, presVars, readVars, histVars, subVars,
                   limVars, muVars, workers>>

\* The scheduling loop: take a slot of the semaphore, start the goroutine.
StartChunk ==
    /\ inChunks.pc = "loop"
    /\ inChunks.next <= Len(inChunks.chunks)
    /\ SemHasRoom(EffConcurrency(inChunks.concurrency))
    /\ workers' = [workers EXCEPT ![inChunks.next] =
                     [IdleWorker EXCEPT !.pc = "begin"]]
    /\ inChunks' = [inChunks EXCEPT !.next = @ + 1]
    /\ UNCHANGED <<storeVars, sendVars, presVars, readVars, histVars, subVars,
                   limVars, muVars>>

\* MarkAllReadTx: BeginTx and PrepareContext; either may fail.
TxBegin(i) ==
    LET w == workers[i]
        ch == inChunks.chunks[i]
    IN  /\ w.pc = "begin"
        /\ \E ok \in BOOLEAN :
             workers' = [workers EXCEPT ![i] =
                IF ok
                THEN [w EXCEPT !.pc = IF NextRow(ch, 1) > Len(ch) THEN "commit"
                                      ELSE "exec",
                               !.j = NextRow(ch, 1), !.attempts = @ + 1]
                ELSE [AfterFailure(w, i) EXCEPT !.attempts = @ + 1]]
        /\ UNCHANGED <<storeVars, sendVars, presVars, readVars, histVars, subVars,
                       limVars, muVars, inChunks>>

\* stmt.ExecContext for one conversation; an error returns, and the
\* deferred function rolls the transaction back.
TxExec(i) ==
    LET w == workers[i]
        cid == inChunks.chunks[i][w.j]
    IN  /\ w.pc = "exec"
        /\ \E ok \in BOOLEAN :
             /\ ok => ~LockedByOther(i, cid)
             /\ workers' = [workers EXCEPT ![i] =
                   IF ok THEN [w EXCEPT !.pc = "set", !.tx = @ \cup {cid}]
                   ELSE AfterFailure(w, i)]
        /\ UNCHANGED <<storeVars, sendVars, presVars, readVars, histVars, subVars,
                       limVars, muVars, inChunks>>

\* cache.Client().Set(im:readseq:<user>:<conv>, seq), inside the loop.
TxCacheSet(i) ==
    LET w == workers[i]
        ch == inChunks.chunks[i]
        cid == ch[w.j]
    IN  /\ w.pc = "set"
        /\ readSeqCache' = [readSeqCache EXCEPT ![<<ChunkUser, cid>>] =
                               inChunks.lastSeqs[cid]]
        /\ workers' = [workers EXCEPT ![i] =
              [w EXCEPT !.pc = IF NextRow(ch, w.j + 1) > Len(ch) THEN "commit"
                               ELSE "exec",
                        !.j = NextRow(ch, w.j + 1),
                        !.dirty = @ \cup {cid}]]
        /\ UNCHANGED <<storeVars, sendVars, presVars, histVars, subVars, readReceipts,
                       reads, limVars, muVars, inChunks>>

\* return nil: the deferred function commits and drops Commit's error.
TxCommit(i) ==
    LET w == workers[i] IN
    /\ w.pc = "commit"
    /\ \E ok \in BOOLEAN :
         /\ readReceipts' = [uc \in Users \X ConvIds |->
                               IF ok /\ uc[1] = ChunkUser /\ uc[2] \in w.tx
                               THEN inChunks.lastSeqs[uc[2]]
                               ELSE readReceipts[uc]]
         /\ workers' = [workers EXCEPT ![i] =
                          [w EXCEPT !.pc = "release", !.tx = {},
                                    !.returnedNil = TRUE]]
    /\ UNCHANGED <<storeVars, sendVars, presVars, histVars, subVars, readSeqCache,
                   reads, limVars, muVars, inChunks>>

\* mu.Lock(); if firstErr == nil { firstErr = err }; mu.Unlock()
RecordErr(i) ==
    LET w == workers[i] IN
    /\ w.pc = "record"
    /\ inChunks' = [inChunks EXCEPT
                      !.firstErr = KeepFirst(@, w.err),
                      !.recorded = Append(@, w.err)]
    /\ workers' = [workers EXCEPT ![i].pc = "release"]
    /\ UNCHANGED <<storeVars, sendVars, presVars, readVars, histVars, subVars,
                   limVars, muVars>>

\* The deferred <-sem and wg.Done().
ReleaseSlot(i) ==
    /\ workers[i].pc = "release"
    /\ workers' = [workers EXCEPT ![i].pc = "done"]
    /\ UNCHANGED <<storeVars, sendVars, presVars, readVars, histVars, subVars,
                   limVars, muVars, inChunks>>

\* wg.Wait() returns after the loop; return firstErr.
ChunksReturn ==
    /\ inChunks.pc = "loop"
    /\ inChunks.next > Len(inChunks.chunks)
    /\ Running = {}
    /\ inChunks' = [inChunks EXCEPT !.pc = "returned", !.ret = inChunks.firstErr]
    /\ UNCHANGED <<storeVars, sendVars, presVars, readVars, histVars, subVars,
                   limVars, muVars, workers>>

\* No call of MarkAllReadInChunks.
NoChunkCall ==
    [pc |-> "none", convIDs |-> <<>>, lastSeqs |-> ChunkLastSeqs,
     chunkSize |-> 0, concurrency |-> 0, retry |-> 0, chunks |-> <<>>,
     next |-> 1, firstErr |-> NoErr, recorded |-> <<>>, ret |-> NoErr]

InitChunks ==
    /\ inChunks = NoChunkCall
    /\ workers = [i \in ChunkIds |-> IdleWorker]

(***************************************************************************)
(* The subscriptions of one connection.  Handle subscribes to the delivery *)
(* channel of the connection's user and relays what arrives until a        *)
(* receive or a write fails; then it returns, which closes that            *)
(* subscription and the connection.  Each subscribe_group frame starts a   *)
(* goroutine with a subscription of its own on DeliverChannel(groupId),    *)
(* the same function that names the users' channels; the goroutine relays  *)
(* until its own receive or write fails.  It shares Handle's ctx, which    *)
(* ends when Handle returns, but a receive that is already waiting has no  *)
(* deadline: whether it then returns is left open here (TaskReceiveError). *)
(***************************************************************************)
SubConns == {"k1"}

MaxTasks == 2

TaskSlots == 1..MaxTasks

\* The ids a subscribe_group frame may carry: any string, so the ids of
\* groups and of users alike.
SubTopics == {"u1", "u2", "g1", "g2"}

\* fmt.Sprintf("im:deliver:%s", id), for a user id and for a group id.
DeliverChannel(id) == <<"im:deliver", id>>

NoTask == [pc |-> "off", channel |-> <<>>]

\* Handle before its loop: connected, subscribed to the user's own channel.
InitSubs ==
    subs = [k \in SubConns |->
              [handle |-> "recv", channel |-> DeliverChannel(ConnUser[k]),
               tasks |-> [s \in TaskSlots |-> NoTask],
               written |-> {}, late |-> 0]]

HandleReturned(k) == subs[k].handle = "returned"

SubUnchanged ==
    UNCHANGED <<storeVars, sendVars, presVars, readVars, histVars, limVars,
                muVars, chunkVars>>

\* case subscribe_group: the goroutine is started with p.GroupID as it came
\* and subscribes.
SubscribeGroupTo(k, gid) ==
    /\ ~HandleReturned(k)
    /\ \E s \in TaskSlots :
         /\ subs[k].tasks[s].pc = "off"
         /\ \A x \in TaskSlots : x < s => subs[k].tasks[x].pc # "off"
         /\ subs' = [subs EXCEPT ![k].tasks[s] =
                        [pc |-> "recv", channel |-> DeliverChannel(gid)]]
    /\ SubUnchanged

\* PUBLISH on DeliverChannel(id): Redis hands the frame to every
\* subscription of that channel that is waiting in ReceiveMessage.
PublishOn(id) ==
    LET ch == DeliverChannel(id)
        hit(k) == subs[k].handle = "recv" /\ subs[k].channel = ch
        hits(k) == {s \in TaskSlots : /\ subs[k].tasks[s].pc = "recv"
                                      /\ subs[k].tasks[s].channel = ch}
    IN  /\ \E k \in SubConns : hit(k) \/ hits(k) # {}
        /\ subs' = [k \in SubConns |->
                      [subs[k] EXCEPT
                         !.handle = IF hit(k) THEN "write" ELSE @,
                         !.tasks = [s \in TaskSlots |->
                                      IF s \in hits(k)
                                      THEN [@[s] EXCEPT !.pc = "write"]
                                      ELSE @[s]]]]
        /\ SubUnchanged

\* Handle's loop: conn.WriteMessage of what it received; Handle returns
\* when the write fails (sub.Close(), SetDeviceOffline, conn.Close()).
HandleWrites(k) ==
    /\ subs[k].handle = "write"
    /\ \E ok \in BOOLEAN :
         subs' = [subs EXCEPT
                    ![k].handle = IF ok THEN "recv" ELSE "returned",
                    ![k].written = IF ok THEN @ \cup {subs[k].channel} ELSE @]
    /\ SubUnchanged

\* Handle's sub.ReceiveMessage fails: Handle returns.
HandleReceiveError(k) ==
    /\ subs[k].handle = "recv"
    /\ subs' = [subs EXCEPT ![k].handle = "returned"]
    /\ SubUnchanged

\* The goroutine's conn.WriteMessage of what it received: on a connection
\* Handle has closed the write fails; a failed write ends the goroutine.
TaskWrites(k, s) ==
    /\ subs[k].tasks[s].pc = "write"
    /\ \E ok \in IF HandleReturned(k) THEN {FALSE} ELSE BOOLEAN :
         subs' = [subs EXCEPT
                    ![k].tasks[s].pc = IF ok THEN "recv" ELSE "gone",
                    ![k].written = IF ok THEN @ \cup {subs[k].tasks[s].channel}
                                   ELSE @,
                    ![k].late = IF HandleReturned(k) THEN 1 ELSE @]
    /\ SubUnchanged

\* The goroutine's sub.ReceiveMessage returns an error: the goroutine
\* returns, without closing its subscription.
TaskReceiveError(k, s) ==
    /\ subs[k].tasks[s].pc = "recv"
    /\ subs' = [subs EXCEPT ![k].tasks[s].pc = "gone"]
    /\ SubUnchanged

InitExt == InitLimiter /\ InitWriters /\ InitChunks /\ InitSubs

NoStreams == [id \in StreamIds |-> NoStream]

\* No conversation was deleted; nothing handled yet.
InitHist ==
    /\ convDeletes = [oc \in Users \X ConvIds |-> 0]
    /\ handled = NoCall

InitStores ==
    /\ now = 1
    /\ messages = {}
    /\ published = {}
    /\ out = [k \in Conns |-> <<>>]

InitSend ==
    /\ nextId = 1
    /\ producer \in BOOLEAN
    /\ convLastSeq = [c \in ConvIds |-> 0]
    /\ userConvs = {}
    /\ lastSeqCache = [c \in ConvIds |-> 0]
    /\ mqEvents = {}
    /\ fanout = {}
    /\ sends = [r \in Reqs |-> IdleSend]
    /\ streams = NoStreams

\* No connection yet.
InitPresence ==
    /\ devices = [u \in Users |-> {}]
    /\ online = {}
    /\ conns = [k \in Conns |-> IdleConn]

\* Every connection is up: each went through Connect once.
AllConnected ==
    /\ devices = [u \in Users |-> {ConnDevice[k] : k \in {c \in Conns : ConnUser[c] = u}}]
    /\ online = {ConnUser[k] : k \in Conns}
    /\ conns = [k \in Conns |-> [IdleConn EXCEPT !.pc = "open",
                                                 !.reader = "reading",
                                                 !.connects = 1]]

InitRead ==
    /\ readReceipts = [uc \in Users \X ConvIds |-> 0]
    /\ readSeqCache = [uc \in Users \X ConvIds |-> 0]
    /\ reads = [q \in ReadReqs |-> IdleRead]

Init == InitStores /\ InitSend /\ AllConnected /\ InitRead /\ InitHist /\ InitExt

Next ==
    \/ \E r \in Reqs : SendRateLimited(r)
    \/ \E r \in Reqs : StartStreamRateLimited(r)
    \/ \E r \in Reqs : SendDenied(r)
    \/ \E r \in Reqs : SendAccepted(r)
    \/ \E r \in Reqs : SendBegin(r)
    \/ \E r \in Reqs : AppendMsg(r)
    \/ \E r \in Reqs : UpsertConversation(r)
    \/ \E r \in Reqs : CacheLastSeq(r)
    \/ \E r \in Reqs : UpsertUserConversations(r)
    \/ \E r \in Reqs : MuteCheck(r)
    \/ \E r \in Reqs : PublishAndAck(r)
    \/ \E r \in Reqs : ReplyFailed(r)
    \/ \E g \in fanout : FanoutList(g)
    \/ \E g \in fanout : FanoutBatch(g)
    \/ Tick

Spec == Init /\ [][Next]_vars

(***************************************************************************)
(* The presence specification: connections come and go, nothing is sent.   *)
(***************************************************************************)
NoSends ==
    /\ nextId = 1
    /\ producer = FALSE
    /\ convLastSeq = [c \in ConvIds |-> 0]
    /\ userConvs = {}
    /\ lastSeqCache = [c \in ConvIds |-> 0]
    /\ mqEvents = {}
    /\ fanout = {}
    /\ sends = [r \in Reqs |-> IdleSend]
    /\ streams = NoStreams

PresenceInit == InitStores /\ NoSends /\ InitPresence /\ InitRead /\ InitHist /\ InitExt

PresenceNext ==
    \/ \E k \in Conns : Connect(k)
    \/ \E k \in Conns : ReaderStops(k)
    \/ \E u \in Users : PublishTo(u)
    \/ \E k \in Conns : WriterDelivers(k)
    \/ \E k \in Conns : WriterReceiveError(k)
    \/ \E k \in Conns : OfflineSRem(k)
    \/ \E k \in Conns : OfflineSCard(k)
    \/ \E k \in Conns : OfflineEvict(k)

PresenceSpec == PresenceInit /\ [][PresenceNext]_vars

\* The gateway's own steps are taken when they can be: a delivery that has
\* arrived is written, and the commands of SetDeviceOffline are sent.  What
\* clients, publishers and the network do is under no obligation.
GatewayFairness ==
    \A k \in Conns :
        /\ WF_vars(WriterDelivers(k))
        /\ WF_vars(OfflineSRem(k))
        /\ WF_vars(OfflineSCard(k))
        /\ WF_vars(OfflineEvict(k))

FairPresenceSpec == PresenceInit /\ [][PresenceNext]_vars /\ GatewayFairness

(***************************************************************************)
(* The read specifications start after three sends have been handled:      *)
(* u1 sent a burn-after-read message to u2 in c12, one to the group g1 in  *)
(* cg1, and a plain message to u2 with an empty convId (the send handler   *)
(* takes any convId).  The frame and delivery histories start afresh.      *)
(***************************************************************************)
SentMessages ==
    { [NoMsg EXCEPT !.serverMsgId = 1, !.clientMsgId = "m1", !.convId = "c12",
                    !.from = "u1", !.to = "u2", !.seq = 1, !.timestamp = 1,
                    !.payload = "p1", !.burnAfterRead = TRUE],
      [NoMsg EXCEPT !.serverMsgId = 2, !.clientMsgId = "m1", !.convId = "cg1",
                    !.convType = "group", !.from = "u1", !.groupId = "g1",
                    !.seq = 1, !.timestamp = 1, !.payload = "p1",
                    !.burnAfterRead = TRUE],
      [NoMsg EXCEPT !.serverMsgId = 3, !.clientMsgId = "m1", !.convId = "",
                    !.from = "u1", !.to = "u2", !.seq = 1, !.timestamp = 1,
                    !.payload = "p1"] }

AfterSends ==
    /\ now = 1
    /\ messages = SentMessages
    /\ published = {}
    /\ out = [k \in Conns |-> <<>>]
    /\ nextId = 4
    /\ producer = TRUE
    /\ convLastSeq = [c \in ConvIds |-> IF c \in ReadConvs THEN 1 ELSE 0]
    /\ userConvs = {<<"u1", "c12">>, <<"u2", "c12">>, <<"u1", "cg1">>,
                    <<"u1", "">>, <<"u2", "">>}
    /\ lastSeqCache \in {[c \in ConvIds |-> IF c \in ReadConvs THEN 1 ELSE 0],
                         [c \in ConvIds |-> 0]}
    /\ mqEvents = {}
    /\ fanout = {}
    /\ sends = [r \in Reqs |-> IdleSend]
    /\ streams = NoStreams

ReadInit == AfterSends /\ AllConnected /\ InitRead /\ InitHist /\ InitExt

\* Read receipts over the WebSocket and over HTTP.
ReceiptNext ==
    \/ \E q \in ReadReqs : ReadAck(q)
    \/ \E q \in ReadReqs : ReadUpsert(q)
    \/ \E q \in ReadReqs : ReadCache(q)
    \/ \E q \in ReadReqs : ReadGetBySeq(q)
    \/ \E q \in ReadReqs : ReadRecallBySeq(q)
    \/ \E q \in ReadReqs : ReadPublishRecalled(q)
    \/ \E q \in ReadReqs : HttpReadUpsert(q)
    \/ \E q \in ReadReqs : HttpReadCache(q)

ReceiptSpec == ReadInit /\ [][ReceiptNext]_vars

\* ... and mark-all-read next to them.
MarkReadNext ==
    \/ ReceiptNext
    \/ \E q \in ReadReqs : MarkAllReadCollect(q)
    \/ \E q \in ReadReqs : MarkAllReadTx(q)
    \/ \E q \in ReadReqs : MarkAllReadCommit(q)

MarkReadSpec == ReadInit /\ [][MarkReadNext]_vars

(***************************************************************************)
(* The life of a stored message: after the sends of ReadInit, with the     *)
(* first read slot used up.  The sender's client has sent the c12 message  *)
(* again under the same clientMsgId and that send has passed the           *)
(* permission checks; one more read or mark-all-read arrives, and recalls  *)
(* and conversation deletes come at any time.                              *)
(***************************************************************************)
RetryInput == [NoInput EXCEPT !.convId = "c12", !.to = "u2",
                              !.clientMsgId = "m1", !.payload = "p1",
                              !.burnAfterRead = TRUE]

LifeInit ==
    /\ now = 1
    /\ messages = SentMessages
    /\ published = {}
    /\ out = [k \in Conns |-> <<>>]
    /\ nextId = 4
    /\ producer = TRUE
    /\ convLastSeq = [c \in ConvIds |-> IF c \in ReadConvs THEN 1 ELSE 0]
    /\ userConvs = {<<"u1", "c12">>, <<"u2", "c12">>, <<"u1", "cg1">>,
                    <<"u1", "">>, <<"u2", "">>}
    /\ lastSeqCache = [c \in ConvIds |-> IF c \in ReadConvs THEN 1 ELSE 0]
    /\ mqEvents = {}
    /\ fanout = {}
    /\ sends = [r \in Reqs |->
                 IF r = 1
                 THEN [IdleSend EXCEPT
                         !.pc = "done", !.conn = "k1", !.in = RetryInput,
                         !.serverId = 1, !.seq = 1, !.ts = 1,
                         !.stored = TRUE, !.indexed = TRUE]
                 ELSE [IdleSend EXCEPT
                         !.pc = "begin", !.conn = "k1",
                         !.in = [RetryInput EXCEPT !.payload = "p2",
                                                   !.expireAt = 3]]]
    /\ streams = NoStreams
    /\ AllConnected
    /\ readReceipts = [uc \in Users \X ConvIds |-> 0]
    /\ readSeqCache = [uc \in Users \X ConvIds |-> 0]
    /\ reads = [q \in ReadReqs |->
                 IF q = 1 THEN [IdleRead EXCEPT !.pc = "done"] ELSE IdleRead]
    /\ InitHist /\ InitExt

LifeNext ==
    \/ \E r \in Reqs : SendBegin(r)
    \/ \E r \in Reqs : AppendMsg(r)
    \/ \E r \in Reqs : UpsertConversation(r)
    \/ \E r \in Reqs : CacheLastSeq(r)
    \/ \E r \in Reqs : UpsertUserConversations(r)
    \/ \E r \in Reqs : MuteCheck(r)
    \/ \E r \in Reqs : PublishAndAck(r)
    \/ \E r \in Reqs : ReplyFailed(r)
    \/ \E q \in ReadReqs : ReadAck(q)
    \/ \E q \in ReadReqs : ReadUpsert(q)
    \/ \E q \in ReadReqs : ReadCache(q)
    \/ \E q \in ReadReqs : ReadGetBySeq(q)
    \/ \E q \in ReadReqs : ReadRecallBySeq(q)
    \/ \E q \in ReadReqs : ReadPublishRecalled(q)
    \/ \E q \in ReadReqs : MarkAllReadCollect(q)
    \/ \E q \in ReadReqs : MarkAllReadTx(q)
    \/ \E q \in ReadReqs : MarkAllReadCommit(q)
    \/ HttpRecall("u2")
    \/ WsRecall("k3")
    \/ HttpDeleteConversation("u1")

LifeSpec == LifeInit /\ [][LifeNext]_vars

(***************************************************************************)
(* Streams from their start: stream frames arrive on u1's two connections, *)
(* the clock ticks.                                                        *)
(***************************************************************************)
StreamInit ==
    /\ InitStores
    /\ nextId = 1
    /\ producer = TRUE
    /\ convLastSeq = [c \in ConvIds |-> 0]
    /\ userConvs = {}
    /\ lastSeqCache = [c \in ConvIds |-> 0]
    /\ mqEvents = {}
    /\ fanout = {}
    /\ sends = [r \in StreamReqs |-> IdleSend]
    /\ streams = NoStreams
    /\ AllConnected
    /\ InitRead
    /\ InitHist /\ InitExt

StreamNext ==
    \/ \E r \in StreamReqs : StartStreamRateLimited(r)
    \/ \E r \in StreamReqs : StartStream(r)
    \/ \E r \in StreamReqs : StreamChunkGet(r)
    \/ \E r \in StreamReqs : StreamChunkSet(r)
    \/ \E r \in StreamReqs : EndStreamGet(r)
    \/ \E r \in StreamReqs : StreamDel(r)
    \/ \E r \in StreamReqs : SendBegin(r)
    \/ \E r \in StreamReqs : AppendMsg(r)
    \/ \E r \in StreamReqs : UpsertConversation(r)
    \/ \E r \in StreamReqs : CacheLastSeq(r)
    \/ \E r \in StreamReqs : UpsertUserConversations(r)
    \/ \E r \in StreamReqs : MuteCheck(r)
    \/ \E r \in StreamReqs : PublishAndAck(r)
    \/ \E r \in StreamReqs : ReplyFailed(r)
    \/ Tick

StreamSpec == StreamInit /\ [][StreamNext]_vars

(***************************************************************************)
(* Streams whose chunk and end frames come in on another user's            *)
(* connection.                                                             *)
(***************************************************************************)
OwnerNext ==
    \/ \E r \in StreamReqs : StartStreamRateLimited(r)
    \/ \E r \in StreamReqs : StartStream(r)
    \/ \E r \in StreamReqs : AnyoneChunkGet(r)
    \/ \E r \in StreamReqs : StreamChunkSet(r)
    \/ \E r \in StreamReqs : AnyoneEndGet(r)
    \/ \E r \in StreamReqs : StreamDel(r)
    \/ \E r \in StreamReqs : SendBegin(r)
    \/ \E r \in StreamReqs : AppendMsg(r)
    \/ \E r \in StreamReqs : UpsertConversation(r)
    \/ \E r \in StreamReqs : CacheLastSeq(r)
    \/ \E r \in StreamReqs : UpsertUserConversations(r)
    \/ \E r \in StreamReqs : MuteCheck(r)
    \/ \E r \in StreamReqs : PublishAndAck(r)
    \/ \E r \in StreamReqs : ReplyFailed(r)
    \/ Tick

OwnerSpec == StreamInit /\ [][OwnerNext]_vars

(***************************************************************************)
(* History, recall, delete and sweep over a log that five sends left       *)
(* behind: four messages in c12, two of them of one seq (two sends within  *)
(* one tick of the clock) and two with an expiry, and one in cg1.          *)
(***************************************************************************)
MaxHistClock == 3

HistMessages ==
    { [NoMsg EXCEPT !.serverMsgId = 1, !.clientMsgId = "m1", !.convId = "c12",
                    !.from = "u1", !.to = "u2", !.seq = 1, !.timestamp = 1,
                    !.payload = "p1"],
      [NoMsg EXCEPT !.serverMsgId = 2, !.clientMsgId = "m2", !.convId = "c12",
                    !.from = "u2", !.to = "u1", !.seq = 1, !.timestamp = 1,
                    !.payload = "p1", !.expireAt = 2],
      [NoMsg EXCEPT !.serverMsgId = 3, !.clientMsgId = "m3", !.convId = "c12",
                    !.from = "u1", !.to = "u2", !.seq = 2, !.timestamp = 2,
                    !.payload = "p1", !.expireAt = 3],
      [NoMsg EXCEPT !.serverMsgId = 4, !.clientMsgId = "m1", !.convId = "cg1",
                    !.convType = "group", !.from = "u1", !.groupId = "g1",
                    !.seq = 1, !.timestamp = 1, !.payload = "p1"],
      [NoMsg EXCEPT !.serverMsgId = 5, !.clientMsgId = "m4", !.convId = "c12",
                    !.from = "u2", !.to = "u1", !.seq = 2, !.timestamp = 2,
                    !.payload = "p1"] }

HistInit ==
    /\ now = 2
    /\ messages = HistMessages
    /\ published = {}
    /\ out = [k \in Conns |-> <<>>]
    /\ nextId = 6
    /\ producer = TRUE
    /\ convLastSeq = [c \in ConvIds |-> IF c = "c12" THEN 2
                                        ELSE IF c = "cg1" THEN 1 ELSE 0]
    /\ userConvs = {<<"u1", "c12">>, <<"u2", "c12">>, <<"u1", "cg1">>}
    /\ lastSeqCache = [c \in ConvIds |-> IF c = "c12" THEN 2
                                         ELSE IF c = "cg1" THEN 1 ELSE 0]
    /\ mqEvents = {}
    /\ fanout = {}
    /\ sends = [r \in Reqs |-> IdleSend]
    /\ streams = NoStreams
    /\ AllConnected
    /\ InitRead
    /\ InitHist /\ InitExt

\* Time passes while the log is read, recalled and swept.
HistTick ==
    /\ now < MaxHistClock
    /\ now' = now + 1
    /\ UNCHANGED <<extVars, messages, published, out, sendVars, presVars, readVars, histVars>>

HistoryNext ==
    \/ \E u \in {"u1", "u2"} : HttpRecall(u)
    \/ \E k \in Conns : WsRecall(k)
    \/ \E u \in {"u1", "u2"} : HttpDeleteConversation(u)
    \/ \E u \in {"u1", "u2"} : HttpHistory(u)
    \/ SweepExpired
    \/ HistTick

HistorySpec == HistInit /\ [][HistoryNext]_vars

(***************************************************************************)
(* Properties of the send pipeline (specification Spec).                   *)

(***************************************************************************)
(* The rate limiter on one key: two callers, the clock moving on while     *)
(* frames keep coming.                                                     *)
(***************************************************************************)
LimitInit ==
    /\ InitStores /\ NoSends /\ AllConnected /\ InitRead /\ InitHist
    /\ InitLimiter /\ InitWriters /\ InitChunks /\ InitSubs

LimitNext ==
    \/ \E c \in LimitCallers : AllowReadClock(c)
    \/ \E c \in LimitCallers : AllowRunScript(c)
    \/ \E c \in LimitCallers : AllowFailsOpen(c)
    \/ LimitTick

LimitSpec == LimitInit /\ [][LimitNext]_vars

(***************************************************************************)
(* The writers of two connections.                                         *)
(***************************************************************************)
WriterNext ==
    \/ \E k \in MuConns : HandlerReplies(k)
    \/ \E k \in MuConns, g \in GroupRelays : SubscribeGroup(k, g)
    \/ \E k \in MuConns, w \in Writers : RelayReceives(k, w)
    \/ \E k \in MuConns : SetWriteDeadline(k)
    \/ \E k \in MuConns, w \in Writers : LockAndWrite(k, w)
    \/ \E k \in MuConns, w \in Writers : WriteReturns(k, w)

WriterSpec == LimitInit /\ [][WriterNext]_vars

(***************************************************************************)
(* One call of MarkAllReadInChunks, for every argument of the bounded      *)
(* sets; FairChunkSpec adds that a goroutine that can take a step does     *)
(* so in the end, which the Go scheduler gives.                            *)
(***************************************************************************)
ChunkInit ==
    /\ InitStores /\ NoSends /\ AllConnected /\ InitRead /\ InitHist
    /\ InitLimiter /\ InitWriters /\ InitSubs
    /\ \E ids \in ChunkLists, size \in ChunkSizes, conc \in Concurrencies,
          retry \in Retries :
         inChunks = [NoChunkCall EXCEPT !.pc = "split", !.convIDs = ids,
                                        !.chunkSize = size,
                                        !.concurrency = conc, !.retry = retry]
    /\ workers = [i \in ChunkIds |-> IdleWorker]

ChunkNext ==
    \/ SplitChunks
    \/ StartChunk
    \/ \E i \in ChunkIds : TxBegin(i)
    \/ \E i \in ChunkIds : TxExec(i)
    \/ \E i \in ChunkIds : TxCacheSet(i)
    \/ \E i \in ChunkIds : TxCommit(i)
    \/ \E i \in ChunkIds : RecordErr(i)
    \/ \E i \in ChunkIds : ReleaseSlot(i)
    \/ ChunksReturn

ChunkSpec == ChunkInit /\ [][ChunkNext]_vars

FairChunkSpec == ChunkSpec /\ WF_vars(ChunkNext)

(***************************************************************************)
ClientIds == {p.clientMsgId : p \in SendInputs}

RecordsWithKey(c, m) == {x \in messages : x.convId = c /\ x.clientMsgId = m}

AppendedKey(c, m) ==
    \E r \in Reqs : sends[r].stored /\ sends[r].in.convId = c
                    /\ sends[r].in.clientMsgId = m

\* C1: the message log never holds two records with one (convId,
\* clientMsgId), and holds exactly one once an append with that key has
\* returned, however many sends (retries, or concurrent ones from several
\* connections) used the key.
C1_OneRecordPerKey ==
    \A c \in ConvIds, m \in ClientIds :
        /\ Cardinality(RecordsWithKey(c, m)) <= 1
        /\ AppendedKey(c, m) => Cardinality(RecordsWithKey(c, m)) = 1

\* Two sends with one key have both come back from Append, on two connections.
C1_Witness ==
    \E r, q \in Reqs :
        /\ r # q
        /\ sends[r].stored /\ sends[q].stored
        /\ sends[r].conn # sends[q].conn
        /\ sends[r].in.convId = sends[q].in.convId
        /\ sends[r].in.clientMsgId = sends[q].in.clientMsgId
        /\ sends[r].pc = "done" /\ sends[q].pc = "done"

Acks == {f \in UNION {{out[k][i] : i \in 1..Len(out[k])} : k \in Conns} :
           f.action = "ack"}

\* C2: all acks for one (convId, clientMsgId) carry the same serverMsgId and
\* seq, those of the one persisted record.
C2_AcksCarryTheRecord ==
    \A f \in Acks :
        \E x \in RecordsWithKey(f.convId, f.clientMsgId) :
            x.serverMsgId = f.serverMsgId /\ x.seq = f.seq

\* C3: within a conversation the send that took its seq later has the larger
\* seq (serverMsgId numbers the sends in the order they took it), so
\* (convId, seq) is unique in the log.
C3_SeqStrictlyIncreasing ==
    \A x, y \in messages :
        (x.convId = y.convId /\ x.serverMsgId < y.serverMsgId) => x.seq < y.seq

FramesFor(r) ==
    UNION {{<<k, i>> : i \in {j \in 1..Len(out[k]) : out[k][j].rid = r}} :
             k \in Conns}

SendErrorCodes == {"RATE_LIMIT", "NOT_FRIEND", "NOT_GROUP_MEMBER", "SEND_FAILED"}

\* C4: a handled send has written exactly one frame, on its own connection:
\* an ack with its serverMsgId and seq, or an error with one of the four
\* codes; a send still in progress has written none.
C4_OneReplyPerSend ==
    \A r \in Reqs :
        IF sends[r].pc = "done"
        THEN \E i \in 1..Len(out[sends[r].conn]) :
                LET f == out[sends[r].conn][i] IN
                /\ FramesFor(r) = {<<sends[r].conn, i>>}
                /\ \/ /\ f.action = "ack"
                      /\ f.serverMsgId = sends[r].serverId
                      /\ f.serverMsgId > 0
                      /\ f.seq = sends[r].seq
                   \/ /\ f.action = "error"
                      /\ f.code \in SendErrorCodes
        ELSE FramesFor(r) = {}

\* One send was acked and another one failed in the store or on the mute.
C4_Witness ==
    \E r, q \in Reqs :
        /\ sends[r].pc = "done" /\ sends[r].err = ""
        /\ sends[q].pc = "done" /\ sends[q].err = "SEND_FAILED"

\* C5: a send that ended with an error frame left no record of its own in
\* the log, wrote nothing to the conversation index or its cache, and
\* published nothing.
C5_ErrorLeavesNoTrace ==
    \A r \in Reqs :
        (sends[r].pc = "done" /\ sends[r].err # "") =>
            /\ ~\E x \in messages : x.serverMsgId = sends[r].serverId
            /\ ~sends[r].indexed
            /\ ~\E p \in published : p.kind = "deliver" /\ p.by = r

(***************************************************************************)
(* Properties of presence (PresenceSpec, FairPresenceSpec).                *)
(***************************************************************************)
OfflineInProgress(k) == conns[k].pc \in {"offline", "scard", "evict"}

\* C6: once no SetDeviceOffline call is in progress (SetDeviceOnline is one
\* transaction), a user is in the online set iff the user's device set is
\* not empty.
C6_PresenceConverges ==
    (\A k \in Conns : ~OfflineInProgress(k)) =>
        \A u \in Users : (u \in online) <=> (devices[u] # {})

ConnectionEnded(k) == conns[k].reader = "stopped" \/ OfflineInProgress(k)

\* C7: a connection whose reader stopped, or whose writer loop returned,
\* eventually has SetDeviceOffline run to its end.
C7_EndedConnectionGoesOffline ==
    \A k \in Conns : ConnectionEnded(k) ~> (conns[k].pc = "closed")

(***************************************************************************)
(* Properties of read receipts (ReceiptSpec, MarkReadSpec).                *)
(***************************************************************************)
AppliedSeqs(uc) ==
    {reads[q].seq : q \in {x \in ReadReqs : /\ reads[x].upserted
                                            /\ reads[x].user = uc[1]
                                            /\ reads[x].convId = uc[2]}}

MaxOf(S) == IF S = {} THEN 0 ELSE CHOOSE x \in S : \A y \in S : y <= x

\* C8: the stored readSeq of every (user, conv) is the largest seq of the
\* receipts applied to it over the WebSocket and over HTTP, in whatever order
\* and interleaving they came; a receipt not above the stored value left it
\* as it was.
C8_ReadSeqIsMaxOfReceipts ==
    \A uc \in Users \X ConvIds : readReceipts[uc] = MaxOf(AppliedSeqs(uc))

\* A WS receipt and an HTTP receipt for one row, the later one with the
\* smaller seq.
C8_Witness ==
    \E q, x \in ReadReqs :
        /\ reads[q].kind = "ws" /\ reads[x].kind = "http"
        /\ reads[q].upserted /\ reads[x].upserted
        /\ reads[q].user = reads[x].user /\ reads[q].convId = reads[x].convId
        /\ \/ reads[q].before > reads[q].seq
           \/ reads[x].before > reads[x].seq

\* C9: no step lowers a stored readSeq; in particular a committed
\* mark-all-read leaves max(stored, incoming lastSeq).
C9_MarkAllReadNeverLowers ==
    [][\A uc \in Users \X ConvIds : readReceipts'[uc] >= readReceipts[uc]]_vars

RecalledEvents(c, n, t) ==
    {p \in published : /\ p.kind = "recalled" /\ p.convId = c
                       /\ p.seq = n /\ p.topic = t}

\* C10: for one (convId, seq) at most one recalled event is published on a
\* topic, however many reads of that seq arrive and however they interleave.
C10_BurnFiresOnce ==
    \A c \in ReadConvs, n \in 1..MaxSeq, t \in Users \cup Groups :
        Cardinality(RecalledEvents(c, n, t)) <= 1

\* C11: a read handler goes on to RecallBySeq's success (and the recalled
\* event) only when its user is not the sender of the message it read.
C11_SenderReadNeverRecalls ==
    \A q \in ReadReqs :
        reads[q].pc = "publish" => reads[q].user # reads[q].msg.from


\* Message.CanRecall: five minutes, one tick of the model's clock.
RecallWindow == 1

\* C13: a recall call turns recalled from false to true only when its caller
\* is the sender of the message and it comes within the recall window of the
\* message's timestamp.
C13_RecallOnlyBySenderInTime ==
    [][\A m \in messages :
         (/\ ~m.recalled
          /\ handled'.kind = "recall"
          /\ \E m2 \in messages' :
                m2.serverMsgId = m.serverMsgId /\ m2.recalled)
         => /\ handled'.user = m.from
            /\ handled'.at - m.timestamp <= RecallWindow]_vars


\* The messages a history call made at time t may show, as the listing rule
\* states it.
Eligible(c, fromSeq, t) ==
    {m \in messages : /\ m.convId = c /\ m.seq > fromSeq /\ m.recalled = FALSE
                      /\ (m.expireAt = 0 \/ m.expireAt > t)}

Shown(h) == {h.body[i] : i \in 1..Len(h.body)}

Least(a, b) == IF a < b THEN a ELSE b

C15_HistoryRespectsWatermark ==
    (handled.kind = "history" /\ handled.status = 200) =>
        LET T == convDeletes[<<handled.user, handled.convId>>]
        IN  T > 0 => \A m \in Shown(handled) : ~(m.timestamp < T)

\* C16: a history answer given at a time after a message's expireAt does not
\* show it, swept or not; and a sweep at time t removes exactly the records
\* with an expireAt at or before t.
C16_ExpiredNeverShown ==
    /\ [](handled.kind = "history" =>
            \A m \in Shown(handled) : ~(m.expireAt # 0 /\ handled.at > m.expireAt))
    /\ [][(handled' # handled /\ handled'.kind = "sweep" /\ handled'.status = 204)
           => /\ \A m \in messages :
                    (m.expireAt # 0 /\ m.expireAt <= handled'.at) => m \notin messages'
              /\ \A m \in messages :
                    (m.expireAt = 0 \/ m.expireAt > handled'.at) => m \in messages'
              /\ messages' \subseteq messages]_vars

\* History answered at time 3 while the message that expired at 2 is still
\* in the log, no sweep having taken it.
C16_Witness ==
    /\ handled.kind = "history"
    /\ handled.status = 200
    /\ handled.at = 3
    /\ handled.convId = "c12"
    /\ handled.fromSeq = 0
    /\ handled.body # <<>>
    /\ \E m \in messages : m.convId = "c12" /\ m.expireAt = 2 /\ ~m.recalled


\* C12: no step takes a recalled message back: whatever record the log holds
\* afterwards under its serverMsgId, or under its (convId, clientMsgId), is
\* recalled.
C12_RecallIsPermanent ==
    [][\A m \in messages :
         m.recalled =>
           \A x \in messages' :
             (\/ x.serverMsgId = m.serverMsgId
              \/ (x.convId = m.convId /\ x.clientMsgId = m.clientMsgId))
             => x.recalled]_vars

\* The c12 message is recalled, the send repeating its clientMsgId has run
\* its Append, and a read receipt and a conversation delete have been applied.
C12_Witness ==
    /\ \E m \in messages : m.serverMsgId = 1 /\ m.recalled
    /\ \E r \in Reqs : /\ sends[r].stored /\ sends[r].serverId > 3
                        /\ sends[r].in.clientMsgId = "m1" /\ sends[r].pc = "done"
    /\ \E q \in ReadReqs : reads[q].upserted /\ reads[q].pc = "done"
    /\ convDeletes[<<"u1", "c12">>] > 0


\* The PUBLISH calls a send made.
PublishesBy(r) == {p \in published : p.kind = "deliver" /\ p.by = r}

\* C19: a c2c send that ended with an ack made one publish on the
\* recipient's channel and one on the sender's and none elsewhere, and each
\* carries the serverMsgId, seq and payload of the ack frame.
C19_C2CFanout ==
    \A r \in Reqs :
        (/\ sends[r].pc = "done" /\ sends[r].err = ""
         /\ sends[r].in.convType = "c2c") =>
            LET s == sends[r]
                from == ConnUser[s.conn]
            IN  /\ \A t \in {s.in.to, from} :
                      Cardinality({p \in PublishesBy(r) : p.topic = t}) = 1
                /\ \A p \in PublishesBy(r) : p.topic \in {s.in.to, from}
                /\ \E i \in 1..Len(out[s.conn]) :
                      LET f == out[s.conn][i] IN
                      /\ f.action = "ack" /\ f.rid = r
                      /\ \A p \in PublishesBy(r) :
                            /\ p.serverMsgId = f.serverMsgId
                            /\ p.seq = f.seq
                            /\ p.payload = f.payload

\* u1 has sent to u2 and was acked; the publish on u2's channel got through.
C19_Witness ==
    \E r \in Reqs :
        /\ sends[r].pc = "done" /\ sends[r].err = ""
        /\ sends[r].in.convType = "c2c" /\ sends[r].in.to = "u2"
        /\ ConnUser[sends[r].conn] = "u1"
        /\ \E p \in PublishesBy(r) : p.topic = "u2" /\ p.ok

StreamCalls(id, kind) ==
    {r \in StreamReqs : sends[r].kind = kind /\ sends[r].streamId = id}

Succeeded(rs) == {r \in rs : sends[r].pc = "done" /\ sends[r].err = ""}

StreamRecords(id) ==
    {m \in messages :
       \E r \in StreamReqs :
         sends[r].streamId = id /\ m.serverMsgId = sends[r].serverId}

\* C17: no chunk leaves a record in the log.  When the start of a stream,
\* its k chunks and its one end_stream have all succeeded, each channel of
\* the conversation has had k+2 publishes for the stream, the log holds
\* exactly two records of it, the start's and the end's, and history of the
\* conversation shows both.
C17_StreamPersistence ==
    \A id \in StreamIds :
        LET starts == StreamCalls(id, "start")
            chunks == StreamCalls(id, "chunk")
            ends == StreamCalls(id, "end")
            ok == Succeeded(starts) \cup Succeeded(chunks) \cup Succeeded(ends)
        IN  /\ \A r \in chunks :
                  ~\E m \in messages : m.serverMsgId = sends[r].serverId
            /\ (/\ Succeeded(starts) # {}
                /\ Cardinality(ends) = 1 /\ Succeeded(ends) = ends
                /\ \A r \in chunks : sends[r].pc = "done") =>
                  \A a \in starts, e \in ends :
                    /\ \A t \in DeliverTopics(sends[a]) :
                          Cardinality({p \in published :
                                         /\ p.kind = "deliver" /\ p.topic = t
                                         /\ p.by \in ok})
                            = Cardinality(Succeeded(chunks)) + 2
                    /\ Cardinality(StreamRecords(id)) = 2
                    /\ \A m \in StreamRecords(id) :
                          \/ /\ m.serverMsgId = sends[a].serverId
                             /\ m.clientMsgId = sends[a].in.clientMsgId
                          \/ /\ m.serverMsgId = sends[e].serverId
                             /\ m.clientMsgId = EndClientID(id)
                    /\ \A body \in List(messages, sends[a].in.convId, 0, 0, now) :
                          StreamRecords(id) \subseteq
                            {body[i] : i \in 1..Len(body)}

\* A stream was started, had one chunk and was ended, all with success.
C17_Witness ==
    \E id \in StreamIds :
        /\ Succeeded(StreamCalls(id, "start")) # {}
        /\ Succeeded(StreamCalls(id, "chunk")) # {}
        /\ Succeeded(StreamCalls(id, "end")) # {}

\* C18: once an end_stream call on a stream has run, the stream's state is
\* gone, so that a stream_chunk or end_stream naming the stream finds none.
C18_EndStreamDestroysState ==
    \A id \in StreamIds : Ended(id) => ~Alive(id)

(***************************************************************************)
(* Properties of the publish step and of the rate limit (Spec).            *)
(***************************************************************************)
FailedPublishes(r) == {p \in published : p.kind = "deliver" /\ p.by = r /\ ~p.ok}

\* C21: a publish that fails during a send does not fail the send: the step
\* that publishes leaves the log as it is and writes the ack with the send's
\* serverMsgId and seq, and a handled send one of whose publishes failed has
\* its ack and no SEND_FAILED.
C21_PublishFailureKeepsSend ==
    /\ [](\A r \in Reqs :
            (sends[r].pc = "done" /\ FailedPublishes(r) # {}) =>
                /\ sends[r].err = ""
                /\ \A ki \in FramesFor(r) : out[ki[1]][ki[2]].action = "ack"
                /\ FramesFor(r) # {})
    /\ [][\A r \in Reqs :
            (sends[r].pc = "publish" /\ sends'[r].pc # "publish") =>
                /\ messages' = messages
                /\ sends'[r].pc = "done"
                /\ out' = WriteFrame(sends[r].conn, Frame("ack", r, "", sends[r]))]_vars

\* A stored send all of whose publishes failed was acked.
C21_Witness ==
    \E r \in Reqs :
        /\ sends[r].pc = "done" /\ sends[r].stored
        /\ FailedPublishes(r) # {}
        /\ \A p \in published : p.by = r => ~p.ok
        /\ \E x \in messages : x.serverMsgId = sends[r].serverId
        /\ \E ki \in FramesFor(r) : out[ki[1]][ki[2]].action = "ack"

RateLimited(r) == sends[r].pc # "idle" /\ sends[r].err = "RATE_LIMIT"

\* C22: a send or start_stream frame the rate limiter denies is answered with
\* the error frame RATE_LIMIT and nothing else is done for it: the step that
\* denies it changes only the connection's output, and the request has then
\* ended, with no serverMsgId taken, no record, no write to the conversation
\* index or its cache, no stream state and no publish.
C22_RateLimitedDoesNothing ==
    /\ [](\A r \in Reqs :
            RateLimited(r) =>
                /\ sends[r].pc = "done"
                /\ sends[r].serverId = 0 /\ sends[r].streamId = ""
                /\ ~sends[r].stored /\ ~sends[r].indexed
                /\ ~\E p \in published : p.by = r
                /\ ~\E e \in mqEvents \cup fanout : e.rid = r
                /\ \A ki \in FramesFor(r) :
                      /\ ki[1] = sends[r].conn
                      /\ out[ki[1]][ki[2]].action = "error"
                      /\ out[ki[1]][ki[2]].code = "RATE_LIMIT"
                /\ Cardinality(FramesFor(r)) = 1)
    /\ [][\A r \in Reqs :
            (~RateLimited(r) /\ RateLimited(r)') =>
                /\ out' = WriteFrame(sends'[r].conn,
                                     Frame("error", r, "RATE_LIMIT", sends'[r]))
                /\ UNCHANGED <<now, messages, published, nextId, convLastSeq,
                               userConvs, lastSeqCache, mqEvents, fanout, streams,
                               presVars, readVars, histVars>>]_vars

\* A send and a start_stream were both denied.
C22_Witness ==
    \E r, q \in Reqs :
        /\ RateLimited(r) /\ sends[r].kind = "send"
        /\ RateLimited(q) /\ sends[q].kind = "start"

\* C25: the lastSeq of a conversation never decreases, whatever the order in
\* which concurrent sends update the index: a send with the smaller seq that
\* updates after one with the larger seq leaves the larger value.
C25_LastSeqNeverDecreases ==
    /\ [][\A c \in ConvIds : convLastSeq'[c] >= convLastSeq[c]]_vars
    /\ [](\A r \in Reqs :
            sends[r].indexed => convLastSeq[sends[r].in.convId] >= sends[r].seq)

\* Two sends of one conversation have both updated the index; the one with
\* the smaller seq wrote the cache last, and the index holds the larger seq.
C25_Witness ==
    \E r, q \in Reqs :
        /\ sends[r].indexed /\ sends[q].indexed
        /\ sends[r].in.convId = sends[q].in.convId
        /\ sends[r].seq < sends[q].seq
        /\ sends[q].pc = "done" /\ sends[r].pc = "userconv"
        /\ lastSeqCache[sends[r].in.convId] = sends[r].seq
        /\ convLastSeq[sends[r].in.convId] = sends[q].seq

(***************************************************************************)
(* Properties of the stream sequence numbers (StreamSpec).                 *)
(***************************************************************************)
\* C30: within one stream no two delivered messages carry the same
\* streamSeq, also when its chunks come in on different connections at the
\* same time (the start has 1, each chunk the next number, the end one more
\* than the last chunk).
C30_StreamSeqNoDuplicates ==
    \A r, q \in StreamReqs :
        ( /\ r # q
          /\ sends[r].streamId # "" /\ sends[r].streamId = sends[q].streamId
          /\ Succeeded(StreamCalls(sends[r].streamId, "start")) # {}
          /\ sends[r].pc = "done" /\ sends[r].err = ""
          /\ sends[q].pc = "done" /\ sends[q].err = "" )
        => sends[r].streamSeq # sends[q].streamSeq

(***************************************************************************)
(* Properties of the rate limiter (LimitSpec).                             *)
(***************************************************************************)
\* The Allow call of caller c returns in this step with the script's answer.
ScriptAnswers(c) ==
    allows[c].pc = "script" /\ allows'[c].pc = "idle" /\ ~verdicts'.err

\* min(burst, tokens + elapsed * rate) for a call that reads nowMs, in
\* thousandths of a token; a key that is not there counts as a full bucket
\* refilled just now.
Refilled(nowMs) ==
    LET present == clockMs < bucket.exp
        tokens == IF present THEN bucket.tokens ELSE SendBurst * Milli
        elapsed == IF present /\ nowMs > bucket.ts THEN nowMs - bucket.ts ELSE 0
        total == tokens + elapsed * SendQPS
    IN  IF total > SendBurst * Milli THEN SendBurst * Milli ELSE total

\* C29: the stored token count is always within [0, burst]; a call the
\* script answers is allowed iff the refilled count
\* min(burst, tokens + elapsed * rate) is at least one token, and the count
\* stored afterwards is the refilled count less one token when the call was
\* allowed and the refilled count itself when it was denied.
C29_TokenBucket ==
    /\ [](bucket.tokens >= 0 /\ bucket.tokens <= SendBurst * Milli)
    /\ [][\A c \in LimitCallers :
            ScriptAnswers(c) =>
                /\ verdicts'.allowed <=> Refilled(allows[c].nowMs) >= Milli
                /\ bucket'.tokens = IF verdicts'.allowed
                                    THEN Refilled(allows[c].nowMs) - Milli
                                    ELSE Refilled(allows[c].nowMs)]_vars

\* Calls were allowed from the first burst and again after a refill, and the
\* last one was denied with half a token in the bucket.
C29_Witness ==
    /\ verdicts.calls >= 4
    /\ ~verdicts.allowed /\ ~verdicts.err
    /\ bucket.tokens * 2 = Milli
    /\ \E t \in 0..MaxMs : verdicts.allowedAt[t] > 0

RECURSIVE AllowedIn(_, _)
AllowedIn(t1, t2) ==
    IF t1 > t2 THEN 0 ELSE verdicts.allowedAt[t1] + AllowedIn(t1 + 1, t2)

\* C23: under a steady flow of frames on one key, with Redis answering
\* every call, once the burst is used up the calls allowed in any window of
\* T seconds are at most qps * T + 1 (counted here in milliseconds and
\* thousandths), so that the acceptance rate tends to qps.
C23_AcceptanceRate ==
    ~verdicts.failed =>
        \A t1, t2 \in 0..MaxMs :
            t1 <= t2 =>
                Milli * AllowedIn(t1, t2) <= SendQPS * (t2 - t1) + Milli

(***************************************************************************)
(* Properties of the writers of a connection (WriterSpec).                 *)
(***************************************************************************)
Writing(k) == {w \in Writers : writers[k][w] = "write"}

\* C24: on one connection at most one frame write is in progress at any
\* time, and whoever is writing, the reader goroutine with a reply of
\* handleInbound, Handle's loop relaying the user's channel or a
\* subscribe_group goroutine, holds that connection's writer mutex.
C24_WritesSerialized ==
    \A k \in MuConns :
        /\ Cardinality(Writing(k)) <= 1
        /\ \A w \in Writing(k) : writeMu[k] = w

\* On k1 the reader is writing a reply while the user relay and both group
\* relays wait for the mutex; k2 is being written at the same time.
C24_Witness ==
    /\ writers["k1"]["reader"] = "write"
    /\ \A w \in Writers \ {"reader"} : writers["k1"][w] = "lock"
    /\ Writing("k2") # {}

(***************************************************************************)
(* Properties of MarkAllReadInChunks (ChunkSpec, FairChunkSpec).           *)
(***************************************************************************)
RECURSIVE Flatten(_)
Flatten(ss) == IF ss = <<>> THEN <<>> ELSE Head(ss) \o Flatten(Tail(ss))

Started == {i \in ChunkIds : workers[i].pc # "off"}

\* C26: the chunks are consecutive pieces of the list, none empty and none
\* longer than the chunk size, that put together give the list again; at
\* most `concurrency` goroutines run a chunk at any time; no chunk is
\* attempted more than retry + 1 times; and the call returns.
C26_ChunksBounded ==
    /\ [](inChunks.pc \in {"loop", "returned"} =>
            /\ Flatten(inChunks.chunks) = inChunks.convIDs
            /\ \A i \in 1..Len(inChunks.chunks) :
                 /\ Len(inChunks.chunks[i]) >= 1
                 /\ Len(inChunks.chunks[i]) <= EffChunkSize(inChunks.chunkSize))
    /\ [](Cardinality(Running) <= EffConcurrency(inChunks.concurrency))
    /\ [](\A i \in ChunkIds :
            workers[i].attempts <= EffRetry(inChunks.retry) + 1)
    /\ <>(inChunks.pc = "returned")

\* Three chunks of one conversation each and concurrency 2: two goroutines
\* are running, one of them in its second and last attempt, and the third
\* chunk waits for a slot.
C26_Witness ==
    /\ Len(inChunks.chunks) = 3
    /\ inChunks.concurrency = 2 /\ inChunks.retry = 1
    /\ Running = {1, 2}
    /\ inChunks.next = 3
    /\ workers[1].attempts = 2 /\ workers[1].pc = "exec"
    /\ workers[2].pc = "commit"

OnlyIn(i) ==
    {inChunks.chunks[i][j] : j \in 1..Len(inChunks.chunks[i])}
    \ UNION {{inChunks.chunks[k][j] : j \in 1..Len(inChunks.chunks[k])} :
               k \in (1..Len(inChunks.chunks)) \ {i}}

\* C28: a chunk is all or nothing.  When MarkAllReadTx has failed on a chunk
\* for the last time, no conversation of the chunk has a changed readSeq,
\* neither in read_receipts nor in the readSeq cache; when the chunk's
\* goroutine has ended after MarkAllReadTx returned nil, every conversation
\* of the chunk with lastSeq > 0 has readSeq = lastSeq in both.
C28_ChunkAllOrNothing ==
    \A i \in Started :
        /\ workers[i].err # NoErr =>
             \A c \in OnlyIn(i) :
                 /\ readReceipts[<<ChunkUser, c>>] = 0
                 /\ readSeqCache[<<ChunkUser, c>>] = 0
        /\ (workers[i].pc = "done" /\ workers[i].returnedNil) =>
             \A c \in OnlyIn(i) :
                 inChunks.lastSeqs[c] > 0 =>
                     /\ readReceipts[<<ChunkUser, c>>] = inChunks.lastSeqs[c]
                     /\ readSeqCache[<<ChunkUser, c>>] = inChunks.lastSeqs[c]

(***************************************************************************)
(* Properties of the conversation index against the message log.           *)
(***************************************************************************)
SendInProgress(c) ==
    \E r \in DOMAIN sends :
        sends[r].pc \notin {"idle", "done"} /\ sends[r].in.convId = c

PersistedSeqs(c) == {m.seq : m \in {x \in messages : x.convId = c}}

\* C34: whenever no send is in progress for a convId, the lastSeq of the
\* conversation index equals the largest seq among the messages persisted
\* for that convId, also after a retried send with an already used
\* clientMsgId and after the end or error record of a stream was appended.
C34_LastSeqIsLargestPersisted ==
    \A c \in ConvIds \ {""} :
        ~SendInProgress(c) => convLastSeq[c] = MaxOf(PersistedSeqs(c))

(***************************************************************************)
(* Properties of the lastSeq and readSeq caches against the stores.        *)
(***************************************************************************)
ReadInProgress(u, c) ==
    \E q \in DOMAIN reads :
        /\ reads[q].pc \notin {"idle", "done"}
        /\ reads[q].user = u
        /\ reads[q].convId = c \/ reads[q].kind = "mark"

\* max(0, lastSeq - readSeq)
Unread(lastSeq, readSeq) == IF lastSeq > readSeq THEN lastSeq - readSeq ELSE 0

\* C35: whenever no write is in progress, a cached lastSeq(convId) or
\* readSeq(user, convId) that is present equals the value stored in the
\* conversation index or in read_receipts, so that the unread count
\* computed from the cache equals the one computed from the stores; also
\* after concurrent sends to one convId and after a read receipt with a seq
\* lower than the stored one.
C35_CachesAgreeWithStores ==
    \A c \in ConvIds \ {""} :
        ~SendInProgress(c) =>
            /\ lastSeqCache[c] # 0 => lastSeqCache[c] = convLastSeq[c]
            /\ \A u \in Users :
                ~ReadInProgress(u, c) =>
                    /\ readSeqCache[<<u, c>>] # 0 =>
                           readSeqCache[<<u, c>>] = readReceipts[<<u, c>>]
                    /\ (lastSeqCache[c] # 0 /\ readSeqCache[<<u, c>>] # 0) =>
                           Unread(lastSeqCache[c], readSeqCache[<<u, c>>])
                             = Unread(convLastSeq[c], readReceipts[<<u, c>>])

(***************************************************************************)
(* Properties of the stream state (StreamSpec).                            *)
(***************************************************************************)
\* The start_stream requests that were answered STREAM_START_FAILED after a
\* streamId had been generated.
FailedStarts ==
    {r \in DOMAIN sends : /\ sends[r].kind = "start" /\ sends[r].streamId # ""
                          /\ sends[r].pc = "done" /\ sends[r].err # ""}

\* C38: stream state exists only for streams whose start record was
\* persisted: after a start_stream that failed with STREAM_START_FAILED no
\* stream state of the generated streamId remains, and no stream_chunk or
\* end_stream for it finds one.
C38_FailedStartLeavesNoState ==
    \A r \in FailedStarts :
        /\ ~streams[sends[r].streamId].open
        /\ \A q \in DOMAIN sends :
             (sends[q].kind \in {"chunk", "end"}
                /\ sends[q].streamId = sends[r].streamId) => ~sends[q].found

\* The stream_chunk and end_stream requests that found a stream state and
\* came in on a connection of someone other than the stream's starter.
ForeignCalls ==
    {r \in DOMAIN sends : /\ sends[r].kind \in {"chunk", "end"}
                          /\ sends[r].found
                          /\ ConnUser[sends[r].conn] # sends[r].from}

\* C39: only the user who started a stream can extend or finish it: a
\* stream_chunk or end_stream is accepted only when the acting connection's
\* user is the `from` of the stream state; otherwise nothing is persisted
\* or published under the starter's identity.
C39_OnlyStarterExtends ==
    \A r \in ForeignCalls :
        /\ ~sends[r].stored
        /\ \A p \in published : p.by # r
        /\ sends[r].pc = "done" => sends[r].err # ""

(***************************************************************************)
(* Properties of a persisted message over its life (LifeSpec).             *)
(***************************************************************************)
\* The rows of messages' that stand for the row m: the row with its
\* serverMsgId or with its key (conv_id, client_msg_id).
RowsOf(m, log) ==
    {x \in log : \/ x.serverMsgId = m.serverMsgId
                 \/ (x.convId = m.convId /\ x.clientMsgId = m.clientMsgId)}

\* C32: a persisted message is immutable except for its recalled flag: no
\* step (a retried send with its clientMsgId and another payload or
\* expireAt, recall, read and burn, mark-all-read, conversation delete)
\* changes its serverMsgId, seq, payload, expireAt or burnAfterRead or any
\* other column; a row only ever goes away once its expireAt has passed.
C32_MessageImmutable ==
    [][\A m \in messages :
         /\ \A x \in RowsOf(m, messages') : x = [m EXCEPT !.recalled = x.recalled]
         /\ RowsOf(m, messages') = {} => (m.expireAt # 0 /\ m.expireAt <= now)]_vars

\* The c12 message was recalled, the send repeating its clientMsgId with
\* another payload and expireAt has finished, a read receipt of the
\* burn-after-read message and a conversation delete have been applied, and
\* the row is what it was but for the flag.
C32_Witness ==
    /\ \E m \in messages : /\ m.serverMsgId = 1 /\ m.recalled /\ m.payload = "p1"
                           /\ m.expireAt = 0 /\ m.seq = 1
    /\ \E r \in Reqs : /\ sends[r].stored /\ sends[r].pc = "done"
                        /\ sends[r].in.clientMsgId = "m1"
                        /\ sends[r].in.payload = "p2" /\ sends[r].in.expireAt = 3
    /\ \E q \in ReadReqs : reads[q].upserted /\ reads[q].pc = "done"
    /\ convDeletes[<<"u1", "c12">>] > 0

(***************************************************************************)
(* One key under any configuration, its calls one after the other (one     *)
(* connection: handleInbound calls Allow once per frame and waits for it), *)
(* with pauses between them up to the keys' time to live.  Here verdicts   *)
(* holds the configuration and the times of the calls allowed so far.      *)
(***************************************************************************)
Rates == {1, 2}

Bursts == {1, 2, 3}

\* Pauses between frames, in milliseconds: half a second, a second, and the
\* keys' time to live.
Pauses == {500, 1000, KeyTTL}

MaxWindowMs == 3000

MaxWindowCalls == 7

WindowUnchanged ==
    UNCHANGED <<storeVars, sendVars, presVars, readVars, histVars, subVars,
                muVars, chunkVars, allows>>

\* Allow from its clock reading to its return, Redis answering.
WindowAllow ==
    LET res == Script(bucket, verdicts.rate, verdicts.burst, clockMs, clockMs)
    IN  /\ verdicts.calls < MaxWindowCalls
        /\ bucket' = res.keys
        /\ verdicts' = [verdicts EXCEPT
                          !.calls = @ + 1,
                          !.times = IF res.allowed THEN Append(@, clockMs)
                                    ELSE @]
        /\ UNCHANGED clockMs
        /\ WindowUnchanged

\* No frame for a while.
WindowPause ==
    /\ \E gap \in Pauses :
         /\ clockMs + gap <= MaxWindowMs
         /\ clockMs' = clockMs + gap
    /\ UNCHANGED <<bucket, verdicts>>
    /\ WindowUnchanged

WindowInit ==
    /\ InitStores /\ NoSends /\ AllConnected /\ InitRead /\ InitHist
    /\ InitWriters /\ InitChunks /\ InitSubs
    /\ clockMs = 0
    /\ bucket = NoKeys
    /\ allows = [c \in LimitCallers |-> IdleAllow]
    /\ \E rate \in Rates, burst \in Bursts :
         verdicts = [rate |-> rate, burst |-> burst, calls |-> 0,
                     times |-> <<>>]

WindowNext == WindowAllow \/ WindowPause

WindowSpec == WindowInit /\ [][WindowNext]_vars

(***************************************************************************)
(* One connection with its subscriptions; frames are published on the      *)
(* channels of users and groups.                                           *)
(***************************************************************************)
SubNext ==
    \/ \E k \in SubConns, gid \in SubTopics : SubscribeGroupTo(k, gid)
    \/ \E id \in SubTopics : PublishOn(id)
    \/ \E k \in SubConns : HandleWrites(k)
    \/ \E k \in SubConns : HandleReceiveError(k)
    \/ \E k \in SubConns, s \in TaskSlots : TaskWrites(k, s)
    \/ \E k \in SubConns, s \in TaskSlots : TaskReceiveError(k, s)

SubSpec == LimitInit /\ [][SubNext]_vars

\* The goroutines of the gateway are scheduled: a write that is due is
\* made.  What is published, and whether a receive fails, is under no
\* obligation.
FairSubSpec ==
    /\ SubSpec
    /\ \A k \in SubConns :
         /\ WF_vars(HandleWrites(k))
         /\ \A s \in TaskSlots : WF_vars(TaskWrites(k, s))

(***************************************************************************)
(* Group membership expansion: the queue consumer's ConsumeClaim for a     *)
(* group_update event, and the goroutine Send starts when no producer is   *)
(* configured.  Both list the member ids once and walk the list in batches *)
(* of batchSize, one UpsertUserConversation per id, with a sleep after     *)
(* each batch.  The expansion's locals are kept in a record of `fanout`.   *)
(***************************************************************************)
BatchDefault == 500

BatchSizes == {0, 1, 2}

MaxMembers == 3

\* What SELECT user_id FROM group_members WHERE group_id=? can return: the
\* rows of the group at that time in some order; (group_id, user_id) is the
\* primary key, so no id twice.
MemberListings ==
    {ids \in UNION {[1..n -> Users] : n \in 0..MaxMembers} :
        \A a, b \in DOMAIN ids : a # b => ids[a] # ids[b]}

GroupEvents ==
    {[groupId |-> "g1", convId |-> "cg1"], [groupId |-> "g2", convId |-> "cg2"]}

IdleExpansion ==
    [who |-> "consumer", pc |-> "idle", batchSize |-> 0, groupId |-> "",
     convId |-> "", ids |-> <<>>, i |-> 0, end |-> 0, j |-> 0,
     touched |-> <<>>, failed |-> {}, sizes |-> <<>>, pauses |-> 0]

\* if batch <= 0 { batch = 500 }
EffBatch(b) == IF b <= 0 THEN BatchDefault ELSE b

\* A batch that takes the whole rest of the list.
BatchEndWhole(i, batch, n) == n

\* end := i + batch; if end > len(ids) { end = len(ids) }
BatchEnd(i, batch, n) == IF i + batch > n THEN n ELSE i + batch

Step(g, h) == fanout' = (fanout \ {g}) \cup {h}

ExpandUnchanged ==
    UNCHANGED <<extVars, presVars, readVars, histVars, streams, storeVars,
                nextId, producer, convLastSeq, lastSeqCache, sends>>

\* for msg := range claim.Messages(): the consumer takes the next event.
ConsumeEvent(g) ==
    /\ g \in fanout /\ g.who = "consumer" /\ g.pc = "idle"
    /\ \E e \in mqEvents :
         /\ mqEvents' = mqEvents \ {e}
         /\ Step(g, [IdleExpansion EXCEPT !.pc = "list",
                                          !.batchSize = g.batchSize,
                                          !.groupId = e.groupId,
                                          !.convId = e.convId])
    /\ UNCHANGED userConvs
    /\ ExpandUnchanged

\* ListMemberIDs: with an error nothing is expanded (the consumer goes on to
\* MarkMessage, the goroutine returns).
ListMembers(g) ==
    /\ g \in fanout /\ g.pc = "list"
    /\ \/ \E ids \in MemberListings :
            Step(g, [g EXCEPT !.pc = "batch", !.ids = ids, !.i = 0])
       \/ Step(g, [g EXCEPT !.pc = "end"])
    /\ UNCHANGED <<userConvs, mqEvents>>
    /\ ExpandUnchanged

\* for i := 0; i < len(ids); i += batch: the loop test and the batch's end.
BatchBegin(g) ==
    /\ g \in fanout /\ g.pc = "batch"
    /\ IF g.i < Len(g.ids)
       THEN LET end == BatchEnd(g.i, EffBatch(g.batchSize), Len(g.ids))
            IN  Step(g, [g EXCEPT !.pc = "upsert", !.end = end, !.j = g.i,
                                  !.sizes = Append(@, end - g.i)])
       ELSE Step(g, [g EXCEPT !.pc = "end"])
    /\ UNCHANGED <<userConvs, mqEvents>>
    /\ ExpandUnchanged

\* for _, uid := range ids[i:end]: one UpsertUserConversation, its error
\* dropped; after the last one of the batch comes the sleep.
UpsertMember(g) ==
    /\ g \in fanout /\ g.pc = "upsert"
    /\ IF g.j < g.end
       THEN LET uid == g.ids[g.j + 1] IN
            \E ok \in BOOLEAN :
              /\ userConvs' = IF ok THEN userConvs \cup {<<uid, g.convId>>}
                              ELSE userConvs
              /\ Step(g, [g EXCEPT !.j = g.j + 1,
                                   !.touched = Append(@, uid),
                                   !.failed = IF ok THEN @ ELSE @ \cup {uid}])
       ELSE /\ Step(g, [g EXCEPT !.pc = "sleep"])
            /\ UNCHANGED userConvs
    /\ UNCHANGED mqEvents
    /\ ExpandUnchanged

\* time.Sleep(sleep), then i += batch.
BatchSleep(g) ==
    /\ g \in fanout /\ g.pc = "sleep"
    /\ Step(g, [g EXCEPT !.pc = "batch", !.pauses = @ + 1,
                         !.i = g.i + EffBatch(g.batchSize)])
    /\ UNCHANGED <<userConvs, mqEvents>>
    /\ ExpandUnchanged

\* sess.MarkMessage(msg, "") and back to the range loop; the goroutine of
\* the fallback logs and returns.
ExpansionEnds(g) ==
    /\ g \in fanout /\ g.pc = "end"
    /\ Step(g, [g EXCEPT !.pc = IF g.who = "consumer" THEN "idle" ELSE "done"])
    /\ UNCHANGED <<userConvs, mqEvents>>
    /\ ExpandUnchanged

\* With a producer the events of two group sends are in the queue and the
\* consumer waits; without one Send has just started the goroutine.
ExpandInit ==
    /\ InitStores /\ AllConnected /\ InitRead /\ InitHist /\ InitExt
    /\ nextId = 1
    /\ producer \in BOOLEAN
    /\ convLastSeq = [c \in ConvIds |-> 0]
    /\ userConvs = {}
    /\ lastSeqCache = [c \in ConvIds |-> 0]
    /\ sends = [r \in Reqs |-> IdleSend]
    /\ streams = NoStreams
    /\ mqEvents = IF producer THEN GroupEvents ELSE {}
    /\ \E b \in BatchSizes :
         fanout = IF producer
                  THEN {[IdleExpansion EXCEPT !.batchSize = b]}
                  ELSE {[IdleExpansion EXCEPT !.who = "fallback", !.pc = "list",
                                              !.batchSize = b, !.groupId = "g1",
                                              !.convId = "cg1"]}

ExpandNext ==
    \/ \E g \in fanout : ConsumeEvent(g)
    \/ \E g \in fanout : ListMembers(g)
    \/ \E g \in fanout : BatchBegin(g)
    \/ \E g \in fanout : UpsertMember(g)
    \/ \E g \in fanout : BatchSleep(g)
    \/ \E g \in fanout : ExpansionEnds(g)

ExpandSpec == ExpandInit /\ [][ExpandNext]_vars

\* The consumer's goroutine and the fallback's goroutine are scheduled.
FairExpandSpec == ExpandSpec /\ WF_vars(ExpandNext)

(***************************************************************************)
(* Properties of the membership expansion (FairExpandSpec).                *)
(***************************************************************************)
RECURSIVE Sum(_)
Sum(s) == IF s = <<>> THEN 0 ELSE Head(s) + Sum(Tail(s))

Finished(g) == g.pc \in {"end", "done"} \/ (g.pc = "idle" /\ g.groupId # "")

\* C31: the expansion of a group's members (by the queue consumer for a
\* group_update event, and in process without a queue) issues the
\* UserConversation upsert for each member the listing returned, in the
\* listing's order and each exactly once, in consecutive batches of at most
\* batchSize (500 when not configured) with one pause after each batch, and
\* it terminates.
C31_ExpansionInBatches ==
    /\ [](\A g \in fanout :
            /\ g.touched = SubSeq(g.ids, 1, g.j)
            /\ \A n \in DOMAIN g.sizes :
                 g.sizes[n] >= 1 /\ g.sizes[n] <= EffBatch(g.batchSize)
            /\ Sum(g.sizes) = g.end
            /\ g.pauses \in {Len(g.sizes), Len(g.sizes) - 1}
            /\ \A u \in Users :
                 (\E n \in DOMAIN g.touched : g.touched[n] = u) /\ u \notin g.failed
                   => <<u, g.convId>> \in userConvs
            /\ Finished(g) /\ g.pc # "end" =>
                 /\ g.touched = g.ids
                 /\ g.pauses = Len(g.sizes))
    /\ <>[](mqEvents = {} /\ \A g \in fanout : g.pc \in {"idle", "done"})

\* An expansion over three listed members in batches of two has finished:
\* two batches, two pauses, each member touched once.
C31_Witness ==
    \E g \in fanout :
        /\ Finished(g) /\ g.pc # "end"
        /\ Len(g.ids) = 3 /\ g.batchSize = 2
        /\ g.sizes = <<2, 1>> /\ g.pauses = 2
        /\ g.touched = g.ids

(***************************************************************************)
(* Properties of presence while a connection is up (PresenceSpec).         *)
(***************************************************************************)
\* The handshake is done (SetDeviceOnline has run) and Handle has not
\* returned from its loop.
Up(k) == conns[k].pc = "open"

\* C37: while a connection of user u has completed its handshake and has
\* not terminated, u is in the online set and devices(u) holds that
\* connection's device id, also when another connection of u disconnects
\* at the same time.
C37_UpMeansOnline ==
    \A k \in Conns :
        Up(k) => /\ ConnUser[k] \in online
                 /\ ConnDevice[k] \in devices[ConnUser[k]]

(***************************************************************************)
(* Properties of a connection's subscriptions (SubSpec, FairSubSpec).      *)
(***************************************************************************)
\* The goroutines of subscribe_group that have not returned.
LiveTasks(k) == {s \in TaskSlots : subs[k].tasks[s].pc \in {"recv", "write"}}

\* C33: every goroutine started by subscribe_group stops once its
\* connection has closed: after Handle has returned, before long none of
\* them is subscribed any more or makes another write on the connection.
C33_TasksStopWithConnection ==
    \A k \in SubConns : HandleReturned(k) ~> (LiveTasks(k) = {})

\* The channels a connection of user u may be sent frames of: u's own and
\* those of the groups u is a member of.
Entitled(u) == {DeliverChannel(u)} \cup
               {DeliverChannel(g) : g \in {x \in Groups : u \in Members[x]}}

\* C36: a connection authenticated as user u is only ever sent frames
\* published on deliver(u) or on deliver(g) of a group g that u is a member
\* of; no subscribe_group frames make it receive what was published for
\* another user or for a group it does not belong to.
C36_DeliveryIsolation ==
    \A k \in SubConns : subs[k].written \subseteq Entitled(ConnUser[k])

(***************************************************************************)
(* Properties of the rate limiter over a window (WindowSpec).              *)
(***************************************************************************)
\* C40: for every configured rate and burst and every arrival pattern,
\* pauses longer than the keys' time to live of two seconds included, the
\* calls allowed on one key in any interval of T seconds are at most
\* burst + ratePerSec * T (counted in thousandths of a token, T in
\* milliseconds).
C40_WindowBound ==
    \A i, j \in DOMAIN verdicts.times :
        i <= j =>
            (j - i + 1) * Milli <=
                verdicts.burst * Milli
                  + verdicts.rate * (verdicts.times[j] - verdicts.times[i])

====
